---- MODULE Spec2Model ----
(***************************************************************************)
(* CO2 / Peltier / fan cooling simulations.                                *)
(*                                                                         *)
(* The programs compute in IEEE doubles; the model computes in fixed       *)
(* point, rounding every quotient down:                                    *)
(*   temperatures             1/DegC  degree C                             *)
(*   powers                   1/Watt  W          (mW)                      *)
(*   energies                 1/Joule J          (mJ)                      *)
(*   battery charge           1/WattHour Wh                                *)
(*   efficiencies, multipliers, sines   1/Unit                             *)
(* Times are whole seconds, as in the programs.                            *)
(***************************************************************************)
EXTENDS Integers, Sequences, FiniteSets, TLC

DegC == 10^4
Watt == 10^3
Joule == 10^3
WattHour == 1440 * 10^3
Unit == 10^4

Max(a, b) == IF a >= b THEN a ELSE b
Min(a, b) == IF a <= b THEN a ELSE b

\* a * f / Unit rounded down, for a >= 0 and a factor f >= 0 in 1/Unit,
\* split so that no intermediate product leaves 32 bits.
Scale(a, f) == a * (f \div Unit) + (a * (f % Unit)) \div Unit

\* numpy.sin over a quarter wave, one entry per degree, in 1/Unit.
SinTable ==
  << 0, 175, 349, 523, 698, 872, 1045, 1219, 1392, 1564, 1736, 1908, 2079,
     2250, 2419, 2588, 2756, 2924, 3090, 3256, 3420, 3584, 3746, 3907, 4067, 4226,
     4384, 4540, 4695, 4848, 5000, 5150, 5299, 5446, 5592, 5736, 5878, 6018, 6157,
     6293, 6428, 6561, 6691, 6820, 6947, 7071, 7193, 7314, 7431, 7547, 7660, 7771,
     7880, 7986, 8090, 8192, 8290, 8387, 8480, 8572, 8660, 8746, 8829, 8910, 8988,
     9063, 9135, 9205, 9272, 9336, 9397, 9455, 9511, 9563, 9613, 9659, 9703, 9744,
     9781, 9816, 9848, 9877, 9903, 9925, 9945, 9962, 9976, 9986, 9994, 9998, 10000 >>

\* sin(num / den * pi) in 1/Unit, for num >= 0 and den > 0: reduced to the
\* first quarter wave and interpolated linearly between whole degrees.
SinPi(num, den) ==
  LET p == num % (2 * den)
      h == IF p < den THEN p ELSE p - den
      q == Min(h, den - h)
      i == (180 * q) \div den
      f == (180 * q) % den
      v == IF f = 0 THEN SinTable[i + 1]
           ELSE SinTable[i + 1] + ((SinTable[i + 2] - SinTable[i + 1]) * f) \div den
  IN  IF p < den THEN v ELSE 0 - v

(***************************************************************************)
(* co2cooling/laptop_sim.py                                                *)
(***************************************************************************)
CPU_POWER_WATTS == (185 * Watt) \div 10
PASSIVE_DISSIPATION_WATTS == (15 * Watt) \div 10
THERMAL_MASS_J_PER_C == 300
INITIAL_TEMP_C == 25 * DegC
CRITICAL_TEMP_C == 90 * DegC
EMERGENCY_TEMP_C == 78 * DegC

COOLING_CAPACITY_JOULES == 2900 * Joule
PURGE_EFFICIENCY == (85 * Unit) \div 100
COOLING_EFFECTIVE_JOULES == Scale(COOLING_CAPACITY_JOULES \div Joule, PURGE_EFFICIENCY) * Joule
COOLDOWN_PER_PURGE_C == ((COOLING_EFFECTIVE_JOULES \div Joule) * DegC) \div THERMAL_MASS_J_PER_C
CONDUCTION_WATTS == (22 * Watt) \div 10
CONDUCTION_DURATION == 180

PELTIER_MAX_COOLING_WATTS == 15 * Watt
PELTIER_POWER_DRAW == 30 * Watt
PELTIER_MAX_RUNTIME == 120
BATTERY_CAPACITY_WH == 60 * WattHour
PELTIER_EFFICIENCY_BASE == (6 * Unit) \div 10

FAN_POWER_DRAW == (25 * Watt) \div 100
FAN_EFFICIENCY_MULTIPLIER_BASE == (13 * Unit) \div 10
FAN_EFFICIENCY_MULTIPLIER_MAX == (25 * Unit) \div 10

TOTAL_TIME_S == 3600
TIME_STEP_S == 5

\* The temperature change, in 1/DegC, that power p (mW) makes over dt seconds.
TempChange(p, dt) == (p * (DegC \div Watt) * dt) \div THERMAL_MASS_J_PER_C

\* The battery charge, in 1/WattHour, that power p (mW) draws over dt seconds.
BatteryDraw(p, dt) == ((p * (WattHour \div 3600)) \div Watt) * dt

get_cpu_workload(time_s) ==
  LET base_load == (CPU_POWER_WATTS * 85) \div 100
      variation == (SinPi(time_s, 300) * ((CPU_POWER_WATTS * 15) \div 100)) \div Unit
  IN  IF (900 < time_s /\ time_s < 1100) \/ (2400 < time_s /\ time_s < 2700)
      THEN (CPU_POWER_WATTS * 11) \div 10
      ELSE base_load + variation

\* calculate_peltier_efficiency with the hot-side penalty's comparison turned
\* around (hot_side_temp < 85).
calculate_peltier_efficiency_PenaltyBelow(cpu_temp, hot_side_temp) ==
  LET temp_diff == hot_side_temp - cpu_temp
      r == temp_diff \div 70
      quad == IF temp_diff >= 70 * DegC THEN 0
              ELSE (PELTIER_EFFICIENCY_BASE * (Unit - (r * r) \div Unit)) \div Unit
      efficiency == IF hot_side_temp < 85 * DegC THEN quad \div 2 ELSE quad
  IN  IF temp_diff <= 0 THEN PELTIER_EFFICIENCY_BASE
      ELSE Max(Unit \div 10, Min(PELTIER_EFFICIENCY_BASE, efficiency))

\* calculate_peltier_efficiency with temp_diff // 70 for temp_diff / 70.
calculate_peltier_efficiency_FloorDivided(cpu_temp, hot_side_temp) ==
  LET temp_diff == hot_side_temp - cpu_temp
      r == (temp_diff \div (70 * DegC)) * Unit
      quad == IF temp_diff >= 70 * DegC THEN 0
              ELSE (PELTIER_EFFICIENCY_BASE * (Unit - (r * r) \div Unit)) \div Unit
      efficiency == IF hot_side_temp > 85 * DegC THEN quad \div 2 ELSE quad
  IN  IF temp_diff <= 0 THEN PELTIER_EFFICIENCY_BASE
      ELSE Max(Unit \div 10, Min(PELTIER_EFFICIENCY_BASE, efficiency))

\* For temp_diff >= 70 degrees the quadratic is <= 0 and the result is the
\* clamp's floor; the model takes it there directly.
calculate_peltier_efficiency(cpu_temp, hot_side_temp) ==
  LET temp_diff == hot_side_temp - cpu_temp
      r == temp_diff \div 70
      quad == IF temp_diff >= 70 * DegC THEN 0
              ELSE (PELTIER_EFFICIENCY_BASE * (Unit - (r * r) \div Unit)) \div Unit
      efficiency == IF hot_side_temp > 85 * DegC THEN quad \div 2 ELSE quad
  IN  IF temp_diff <= 0 THEN PELTIER_EFFICIENCY_BASE
      ELSE Max(Unit \div 10, Min(PELTIER_EFFICIENCY_BASE, efficiency))

\* calculate_fan_multiplier returning early only for duty_cycle < 0.
calculate_fan_multiplier_NoIdleReturn(duty_cycle, is_post_purge, purge_timer) ==
  LET base_mult == Unit + ((FAN_EFFICIENCY_MULTIPLIER_BASE - Unit) * duty_cycle) \div 100
      speed_factor == Unit + (duty_cycle * 7 * Unit) \div 1000
      decay_factor == Max(0, Min(Unit, (purge_timer * Unit) \div CONDUCTION_DURATION))
      purge_boost == IF is_post_purge THEN Unit + decay_factor \div 2 ELSE Unit
  IN  IF duty_cycle < 0 THEN Unit
      ELSE Scale(Scale(base_mult, speed_factor), purge_boost)

\* calculate_fan_multiplier with decay_factor not clamped to [0, 1].
calculate_fan_multiplier_DecayUnclamped(duty_cycle, is_post_purge, purge_timer) ==
  LET base_mult == Unit + ((FAN_EFFICIENCY_MULTIPLIER_BASE - Unit) * duty_cycle) \div 100
      speed_factor == Unit + (duty_cycle * 7 * Unit) \div 1000
      decay_factor == (purge_timer * Unit) \div CONDUCTION_DURATION
      purge_boost == IF is_post_purge THEN Unit + decay_factor \div 2 ELSE Unit
  IN  IF duty_cycle <= 0 THEN Unit
      ELSE Scale(Scale(base_mult, speed_factor), purge_boost)

\* calculate_fan_multiplier ignoring is_post_purge.
calculate_fan_multiplier_NoPurgeBoost(duty_cycle, is_post_purge, purge_timer) ==
  LET base_mult == Unit + ((FAN_EFFICIENCY_MULTIPLIER_BASE - Unit) * duty_cycle) \div 100
      speed_factor == Unit + (duty_cycle * 7 * Unit) \div 1000
  IN  IF duty_cycle <= 0 THEN Unit
      ELSE Scale(base_mult, speed_factor)

calculate_fan_multiplier(duty_cycle, is_post_purge, purge_timer) ==
  LET base_mult == Unit + ((FAN_EFFICIENCY_MULTIPLIER_BASE - Unit) * duty_cycle) \div 100
      speed_factor == Unit + (duty_cycle * 7 * Unit) \div 1000
      decay_factor == Max(0, Min(Unit, (purge_timer * Unit) \div CONDUCTION_DURATION))
      purge_boost == IF is_post_purge THEN Unit + decay_factor \div 2 ELSE Unit
  IN  IF duty_cycle <= 0 THEN Unit
      ELSE Scale(Scale(base_mult, speed_factor), purge_boost)

\* prog   the program that runs: "laptop_sim" (a call of run_simulation) or
\*        "yearsim2" (the script laptopcoolingsim1yearsim2.py)
\* sim    run_simulation's frame: its arguments, locals and loop position
\* entry  history: sim as it stood when the latest loop iteration began
\* y2     the module-level state of laptopcoolingsim1yearsim2.py
\* call   when prog names one of laptop_sim.py's pure functions: the call's
\*        arguments, its position and its result
\* y3     two executions of laptopcoolingsim1yearsim3.py, side by side: the
\*        module-level state of each
VARIABLES prog, sim, entry, y2, call, y3, pro, cs, pi, gui

vars == <<prog, sim, entry, y2, call, y3, pro, cs, pi, gui>>

\* run_simulation's locals after the initialisation that precedes the loop.
\* events is kept as its length and the kinds appended by the latest step
\* (step_events); temperature_log as its length, last and largest entry.
\* The loop body's temporaries live in the same frame; before the first
\* iteration they are unbound and stand at 0 / FALSE here.
\* total_time_s // time_step_s (line 76) floors like \div for a divisor of
\* either sign and raises ZeroDivisionError for time_step_s = 0: the call is
\* then over (pc = "error") before any local is bound.
SimInit(total_time_s, time_step_s) ==
  [ total_time_s |-> total_time_s,
    time_step_s |-> time_step_s,
    n_steps |-> IF time_step_s = 0 THEN 0 ELSE total_time_s \div time_step_s,
    pc |-> IF time_step_s = 0 THEN "error" ELSE "loop",
    t |-> 0,
    canisters |-> [i \in 0..1 |-> COOLING_CAPACITY_JOULES],
    current_canister |-> 0,
    purge_count |-> 0,
    canister_swaps |-> 0,
    last_purge_time |-> 0 - 9999,
    temperature_c |-> INITIAL_TEMP_C,
    events_len |-> 0,
    step_events |-> << >>,
    temperature_log |-> [len |-> 0, last |-> 0, max |-> 0],
    peltier_active |-> FALSE,
    peltier_runtime_s |-> 0,
    battery_remaining_wh |-> BATTERY_CAPACITY_WH,
    hot_side_temp_c |-> INITIAL_TEMP_C,
    fan_active |-> FALSE,
    fan_duty_cycle |-> 0,
    fan_mode |-> "PASSIVE",
    post_purge_timer |-> 0,
    cooling_contribution |->
      [passive |-> 0, co2_hiss |-> 0, co2_purge |-> 0,
       canister_conduction |-> 0, peltier |-> 0, fan_boost |-> 0],
    seconds |-> 0,
    current_cpu_power |-> 0,
    time_since_last_purge |-> 0,
    is_post_purge |-> FALSE,
    passive_cooling |-> 0,
    conduction_cooling |-> 0,
    burst_duration |-> 0,
    cycle_time |-> 0,
    burst_now |-> FALSE,
    hiss_energy |-> 0,
    hiss_cooling |-> 0,
    should_activate |-> FALSE,
    should_deactivate |-> FALSE,
    post_purge_boost |-> FALSE,
    peltier_cooling |-> 0,
    target_duty |-> 0,
    fan_multiplier |-> 0,
    total_cooling |-> 0,
    net_power |-> 0,
    delta_temp |-> 0 ]

\* StepClock with the post-purge window closing one instant early: the step
\* at exactly CONDUCTION_DURATION seconds after the purge is left out.
StepClockWindowStrict(s) ==
  LET seconds == s.t * s.time_step_s
      time_since_last_purge == seconds - s.last_purge_time
      is_post_purge == 0 <= time_since_last_purge
                       /\ time_since_last_purge < CONDUCTION_DURATION
      conduction_cooling == IF is_post_purge THEN CONDUCTION_WATTS ELSE 0
  IN  [s EXCEPT
        !.step_events = << >>,
        !.seconds = seconds,
        !.current_cpu_power = get_cpu_workload(seconds),
        !.time_since_last_purge = time_since_last_purge,
        !.is_post_purge = is_post_purge,
        !.post_purge_timer =
            IF is_post_purge THEN CONDUCTION_DURATION - time_since_last_purge ELSE 0,
        !.passive_cooling = PASSIVE_DISSIPATION_WATTS,
        !.conduction_cooling = conduction_cooling,
        !.cooling_contribution.passive = @ + PASSIVE_DISSIPATION_WATTS * s.time_step_s,
        !.cooling_contribution.canister_conduction = @ + conduction_cooling * s.time_step_s]

\* Lines 103-111: the clock, the workload, the post-purge window, passive
\* and conduction cooling.
StepClock(s) ==
  LET seconds == s.t * s.time_step_s
      time_since_last_purge == seconds - s.last_purge_time
      is_post_purge == 0 <= time_since_last_purge
                       /\ time_since_last_purge <= CONDUCTION_DURATION
      conduction_cooling == IF is_post_purge THEN CONDUCTION_WATTS ELSE 0
  IN  [s EXCEPT
        !.step_events = << >>,
        !.seconds = seconds,
        !.current_cpu_power = get_cpu_workload(seconds),
        !.time_since_last_purge = time_since_last_purge,
        !.is_post_purge = is_post_purge,
        !.post_purge_timer =
            IF is_post_purge THEN CONDUCTION_DURATION - time_since_last_purge ELSE 0,
        !.passive_cooling = PASSIVE_DISSIPATION_WATTS,
        !.conduction_cooling = conduction_cooling,
        !.cooling_contribution.passive = @ + PASSIVE_DISSIPATION_WATTS * s.time_step_s,
        !.cooling_contribution.canister_conduction = @ + conduction_cooling * s.time_step_s]

\* Lines 113-124: burst duration (ms) and cycle time (s) by temperature band.
BurstBand(temperature_c) ==
  IF temperature_c < 60 * DegC THEN [burst_duration |-> 300, cycle_time |-> 8]
  ELSE IF 60 * DegC <= temperature_c /\ temperature_c < 70 * DegC
       THEN [burst_duration |-> 500, cycle_time |-> 5]
  ELSE IF 70 * DegC <= temperature_c /\ temperature_c < 75 * DegC
       THEN [burst_duration |-> 700, cycle_time |-> 4]
  ELSE [burst_duration |-> 1000, cycle_time |-> 3]

\* Lines 125-128: the hiss burst of this step (3 J per second of burst).
StepHiss(s) ==
  LET band == BurstBand(s.temperature_c)
      burst_now == s.seconds % band.cycle_time = 0
      hiss_energy == IF burst_now /\ s.canisters[s.current_canister] > 0
                     THEN (band.burst_duration * 3 * Joule) \div 1000 ELSE 0
  IN  [s EXCEPT
        !.burst_duration = band.burst_duration,
        !.cycle_time = band.cycle_time,
        !.burst_now = burst_now,
        !.hiss_energy = hiss_energy,
        !.hiss_cooling = hiss_energy \div s.time_step_s,
        !.cooling_contribution.co2_hiss = @ + hiss_energy]

\* StepPeltierDecision switching off without resetting the runtime.
StepPeltierDecisionKeepRuntime(s) ==
  LET should_activate ==
        /\ s.temperature_c > 70 * DegC
        /\ s.battery_remaining_wh > 5 * WattHour
        /\ s.peltier_runtime_s < PELTIER_MAX_RUNTIME
        /\ s.hot_side_temp_c < 90 * DegC
      should_deactivate ==
        \/ s.temperature_c < 65 * DegC
        \/ s.battery_remaining_wh < 3 * WattHour
        \/ s.hot_side_temp_c > 95 * DegC
        \/ s.peltier_runtime_s >= PELTIER_MAX_RUNTIME
      post_purge_boost == 0 < s.time_since_last_purge /\ s.time_since_last_purge < 60
      r == [s EXCEPT !.should_activate = should_activate,
                     !.should_deactivate = should_deactivate,
                     !.post_purge_boost = post_purge_boost]
  IN  IF should_activate \/ post_purge_boost
      THEN [r EXCEPT !.peltier_active = TRUE]
      ELSE IF should_deactivate
           THEN [r EXCEPT !.peltier_active = FALSE]
           ELSE r

\* StepPeltierDecision switching off at 70 degrees instead of 65: no gap
\* between the activation and the deactivation threshold.
StepPeltierDecisionNoGap(s) ==
  LET should_activate ==
        /\ s.temperature_c > 70 * DegC
        /\ s.battery_remaining_wh > 5 * WattHour
        /\ s.peltier_runtime_s < PELTIER_MAX_RUNTIME
        /\ s.hot_side_temp_c < 90 * DegC
      should_deactivate ==
        \/ s.temperature_c <= 70 * DegC
        \/ s.battery_remaining_wh < 3 * WattHour
        \/ s.hot_side_temp_c > 95 * DegC
        \/ s.peltier_runtime_s >= PELTIER_MAX_RUNTIME
      post_purge_boost == 0 < s.time_since_last_purge /\ s.time_since_last_purge < 60
      r == [s EXCEPT !.should_activate = should_activate,
                     !.should_deactivate = should_deactivate,
                     !.post_purge_boost = post_purge_boost]
  IN  IF should_activate \/ post_purge_boost
      THEN [r EXCEPT !.peltier_active = TRUE]
      ELSE IF should_deactivate
           THEN [r EXCEPT !.peltier_active = FALSE, !.peltier_runtime_s = 0]
           ELSE r

\* Lines 130-147: the Peltier on/off decision.
StepPeltierDecision(s) ==
  LET should_activate ==
        /\ s.temperature_c > 70 * DegC
        /\ s.battery_remaining_wh > 5 * WattHour
        /\ s.peltier_runtime_s < PELTIER_MAX_RUNTIME
        /\ s.hot_side_temp_c < 90 * DegC
      should_deactivate ==
        \/ s.temperature_c < 65 * DegC
        \/ s.battery_remaining_wh < 3 * WattHour
        \/ s.hot_side_temp_c > 95 * DegC
        \/ s.peltier_runtime_s >= PELTIER_MAX_RUNTIME
      post_purge_boost == 0 < s.time_since_last_purge /\ s.time_since_last_purge < 60
      r == [s EXCEPT !.should_activate = should_activate,
                     !.should_deactivate = should_deactivate,
                     !.post_purge_boost = post_purge_boost]
  IN  IF should_activate \/ post_purge_boost
      THEN [r EXCEPT !.peltier_active = TRUE]
      ELSE IF should_deactivate
           THEN [r EXCEPT !.peltier_active = FALSE, !.peltier_runtime_s = 0]
           ELSE r

\* Lines 149-162: Peltier cooling, hot side, battery and runtime.
StepPeltier(s) ==
  IF s.peltier_active
  THEN LET peltier_efficiency ==
             calculate_peltier_efficiency(s.temperature_c, s.hot_side_temp_c)
           peltier_cooling == Scale(PELTIER_MAX_COOLING_WATTS, peltier_efficiency)
           waste == Scale(PELTIER_POWER_DRAW, Unit - peltier_efficiency)
       IN  [s EXCEPT
             !.peltier_cooling = peltier_cooling,
             !.hot_side_temp_c = @ + TempChange(waste, s.time_step_s)
                                   - TempChange(PASSIVE_DISSIPATION_WATTS \div 2, s.time_step_s),
             !.battery_remaining_wh = @ - BatteryDraw(PELTIER_POWER_DRAW, s.time_step_s),
             !.peltier_runtime_s = @ + s.time_step_s,
             !.cooling_contribution.peltier = @ + peltier_cooling * s.time_step_s]
  ELSE [s EXCEPT
         !.peltier_cooling = 0,
         !.hot_side_temp_c = Max(s.temperature_c, @ - DegC \div 2),
         !.peltier_runtime_s = Max(0, @ - s.time_step_s)]

\* FanTarget with the emergency rule tested before the post-purge rule.
FanTargetEmergencyFirst(temperature_c, is_post_purge, seconds) ==
  IF temperature_c < 50 * DegC /\ ~is_post_purge
  THEN [fan_mode |-> "PASSIVE", target_duty |-> 0]
  ELSE IF temperature_c < 65 * DegC
       THEN [fan_mode |-> "SLOW_HISS",
             target_duty |-> IF seconds % 15 = 0 THEN 30 ELSE 0]
  ELSE IF temperature_c > 75 * DegC THEN [fan_mode |-> "EMERGENCY", target_duty |-> 100]
  ELSE IF is_post_purge THEN [fan_mode |-> "PURGE", target_duty |-> 80]
  ELSE [fan_mode |-> "NORMAL", target_duty |-> 50]

\* Lines 164-178: fan mode and target duty, first matching rule.
FanTarget(temperature_c, is_post_purge, seconds) ==
  IF temperature_c < 50 * DegC /\ ~is_post_purge
  THEN [fan_mode |-> "PASSIVE", target_duty |-> 0]
  ELSE IF temperature_c < 65 * DegC
       THEN [fan_mode |-> "SLOW_HISS",
             target_duty |-> IF seconds % 15 = 0 THEN 30 ELSE 0]
  ELSE IF is_post_purge THEN [fan_mode |-> "PURGE", target_duty |-> 80]
  ELSE IF temperature_c > 75 * DegC THEN [fan_mode |-> "EMERGENCY", target_duty |-> 100]
  ELSE [fan_mode |-> "NORMAL", target_duty |-> 50]

\* FanRamp stepping by the full +10 / -5 without stopping at the target.
FanRampOvershoot(fan_duty_cycle, target_duty) ==
  IF target_duty > fan_duty_cycle THEN fan_duty_cycle + 10
  ELSE IF target_duty < fan_duty_cycle THEN fan_duty_cycle - 5
  ELSE fan_duty_cycle

\* FanRamp falling as fast as it rises, by 10 per step.
FanRampSymmetric(fan_duty_cycle, target_duty) ==
  IF target_duty > fan_duty_cycle THEN Min(target_duty, fan_duty_cycle + 10)
  ELSE IF target_duty < fan_duty_cycle THEN Max(target_duty, fan_duty_cycle - 10)
  ELSE fan_duty_cycle

\* Lines 179-182: the ramp, +10 up and -5 down per step, never past the target.
FanRamp(fan_duty_cycle, target_duty) ==
  IF target_duty > fan_duty_cycle THEN Min(target_duty, fan_duty_cycle + 10)
  ELSE IF target_duty < fan_duty_cycle THEN Max(target_duty, fan_duty_cycle - 5)
  ELSE fan_duty_cycle

\* Lines 164-183.
StepFan(s) ==
  LET f == FanTarget(s.temperature_c, s.is_post_purge, s.seconds)
      duty == FanRamp(s.fan_duty_cycle, f.target_duty)
  IN  [s EXCEPT
        !.fan_mode = f.fan_mode,
        !.target_duty = f.target_duty,
        !.fan_duty_cycle = duty,
        !.fan_active = duty > 0]

\* StepCooling with the hiss left out of the fan's boost.
StepCoolingHissUnboosted(s) ==
  LET fan_multiplier ==
        calculate_fan_multiplier(s.fan_duty_cycle, s.is_post_purge, s.post_purge_timer)
      enhanced_passive == Scale(s.passive_cooling, fan_multiplier)
      enhanced_conduction == Scale(s.conduction_cooling, fan_multiplier)
      enhanced_peltier == Scale(s.peltier_cooling, fan_multiplier)
      total_cooling ==
        enhanced_passive + enhanced_conduction + s.hiss_cooling + enhanced_peltier
      fan_boost ==
        total_cooling
        - (s.passive_cooling + s.conduction_cooling + s.hiss_cooling + s.peltier_cooling)
  IN  [s EXCEPT
        !.fan_multiplier = fan_multiplier,
        !.battery_remaining_wh =
            IF s.fan_active
            THEN @ - (BatteryDraw(FAN_POWER_DRAW, s.time_step_s) * s.fan_duty_cycle) \div 100
            ELSE @,
        !.cooling_contribution.fan_boost = @ + fan_boost * s.time_step_s,
        !.total_cooling = total_cooling]

\* Lines 185-200: the fan multiplier, the fan's battery draw, the boosted
\* contributions and their sum.
StepCooling(s) ==
  LET fan_multiplier ==
        calculate_fan_multiplier(s.fan_duty_cycle, s.is_post_purge, s.post_purge_timer)
      enhanced_passive == Scale(s.passive_cooling, fan_multiplier)
      enhanced_conduction == Scale(s.conduction_cooling, fan_multiplier)
      enhanced_hiss == Scale(s.hiss_cooling, fan_multiplier)
      enhanced_peltier == Scale(s.peltier_cooling, fan_multiplier)
      total_cooling ==
        enhanced_passive + enhanced_conduction + enhanced_hiss + enhanced_peltier
      fan_boost ==
        total_cooling
        - (s.passive_cooling + s.conduction_cooling + s.hiss_cooling + s.peltier_cooling)
  IN  [s EXCEPT
        !.fan_multiplier = fan_multiplier,
        !.battery_remaining_wh =
            IF s.fan_active
            THEN @ - (BatteryDraw(FAN_POWER_DRAW, s.time_step_s) * s.fan_duty_cycle) \div 100
            ELSE @,
        !.cooling_contribution.fan_boost = @ + fan_boost * s.time_step_s,
        !.total_cooling = total_cooling]

\* Lines 202-205: the purge trigger.
PurgeTrigger(s) ==
  \/ /\ s.canisters[s.current_canister] < COOLING_CAPACITY_JOULES \div 10
     /\ s.temperature_c > EMERGENCY_TEMP_C
  \/ s.temperature_c > 85 * DegC

\* PurgeFunded accepting any canister that is not empty.
PurgeFundedAnyCharge(s) == s.canisters[s.current_canister] > 0

\* PurgeFunded with the funding check dropped.
PurgeFundedAlways(s) == TRUE

\* Line 206: the active canister can pay for a purge.
PurgeFunded(s) == s.canisters[s.current_canister] >= COOLING_EFFECTIVE_JOULES

\* StepPurge with the temperature drop not scaled by the fan multiplier.
StepPurgeNoFan(s) ==
  IF PurgeTrigger(s) /\ PurgeFunded(s)
  THEN [s EXCEPT
         !.temperature_c = @ - COOLDOWN_PER_PURGE_C,
         !.canisters[s.current_canister] = @ - COOLING_EFFECTIVE_JOULES,
         !.purge_count = @ + 1,
         !.last_purge_time = s.seconds,
         !.cooling_contribution.co2_purge = @ + COOLING_EFFECTIVE_JOULES,
         !.events_len = @ + 1,
         !.step_events = Append(@, "EMERGENCY PURGE")]
  ELSE s

\* Lines 202-214: the emergency purge.
StepPurge(s) ==
  IF PurgeTrigger(s) /\ PurgeFunded(s)
  THEN [s EXCEPT
         !.temperature_c = @ - Scale(COOLDOWN_PER_PURGE_C, s.fan_multiplier),
         !.canisters[s.current_canister] = @ - COOLING_EFFECTIVE_JOULES,
         !.purge_count = @ + 1,
         !.last_purge_time = s.seconds,
         !.cooling_contribution.co2_purge = @ + COOLING_EFFECTIVE_JOULES,
         !.events_len = @ + 1,
         !.step_events = Append(@, "EMERGENCY PURGE")]
  ELSE s

\* SwapNeeded without the test that canister 0 is the active one.
SwapNeededAnyActive(s) == s.canisters[s.current_canister] < 50 * Joule

\* Line 216: the swap condition.
SwapNeeded(s) == s.canisters[s.current_canister] < 50 * Joule /\ s.current_canister = 0

\* StepSwap going to the other canister whichever one is active.
StepSwapToggling(s) ==
  IF s.canisters[s.current_canister] < 50 * Joule
  THEN [s EXCEPT
         !.current_canister = 1 - @,
         !.canister_swaps = @ + 1,
         !.events_len = @ + 1,
         !.step_events = Append(@, "CANISTER SWAP")]
  ELSE s

\* StepSwap refilling the canister it swaps away from.
StepSwapRefilling(s) ==
  IF SwapNeeded(s)
  THEN [s EXCEPT
         !.canisters[0] = COOLING_CAPACITY_JOULES,
         !.current_canister = 1,
         !.canister_swaps = @ + 1,
         !.events_len = @ + 1,
         !.step_events = Append(@, "CANISTER SWAP")]
  ELSE s

\* Lines 216-221: the canister swap.
StepSwap(s) ==
  IF SwapNeeded(s)
  THEN [s EXCEPT
         !.current_canister = 1,
         !.canister_swaps = @ + 1,
         !.events_len = @ + 1,
         !.step_events = Append(@, "CANISTER SWAP")]
  ELSE s

\* StepHissDebit without the clamp at 0.
StepHissDebitUnclamped(s) ==
  [s EXCEPT !.canisters[s.current_canister] = @ - s.hiss_energy]

\* Line 222: the hiss is paid by the canister that is active after the swap.
StepHissDebit(s) ==
  [s EXCEPT !.canisters[s.current_canister] = Max(0, @ - s.hiss_energy)]

\* Lines 224-231: explicit Euler integration, the log, the status event.
StepIntegrate(s) ==
  LET net_power == s.current_cpu_power - s.total_cooling
      delta_temp == TempChange(net_power, s.time_step_s)
      temperature_c == s.temperature_c + delta_temp
      status == s.seconds % 300 = 0 /\ s.seconds > 0
  IN  [s EXCEPT
        !.net_power = net_power,
        !.delta_temp = delta_temp,
        !.temperature_c = temperature_c,
        !.temperature_log =
            [len |-> @.len + 1, last |-> temperature_c,
             max |-> IF @.len = 0 THEN temperature_c ELSE Max(@.max, temperature_c)],
        !.events_len = IF status THEN @ + 1 ELSE @,
        !.step_events = IF status THEN Append(@, "STATUS") ELSE @]

\* Lines 102-231: one iteration of the loop.
LoopBody(s) ==
  StepIntegrate(StepHissDebit(StepSwap(StepPurge(StepCooling(StepFan(
    StepPeltier(StepPeltierDecision(StepHiss(StepClock(s))))))))))

(***************************************************************************)
(* simulation/laptopcoolingsim1yearsim2.py: a script, run once from its    *)
(* module-level initial state.  Its battery (8.5e9 Wh) is kept as whole    *)
(* kWh plus a remainder in 1/WattHour, each within 32 bits.                *)
(***************************************************************************)
y2_cpu_power_watts == (185 * Watt) \div 10
y2_passive_dissipation_watts == (15 * Watt) \div 10
y2_thermal_mass_j_per_c == 300
y2_initial_temp_c == 25 * DegC
y2_critical_temp_c == 90 * DegC
y2_emergency_temp_c == 78 * DegC
y2_cooling_capacity_joules == 2900 * Joule
y2_purge_efficiency == (85 * Unit) \div 100
y2_cooling_effective_joules ==
  Scale(y2_cooling_capacity_joules \div Joule, y2_purge_efficiency) * Joule
y2_cooldown_per_purge_c ==
  ((y2_cooling_effective_joules \div Joule) * DegC) \div y2_thermal_mass_j_per_c
y2_conduction_watts == (22 * Watt) \div 10
y2_conduction_duration == 180
y2_peltier_max_cooling_watts == 15 * Watt
y2_peltier_power_draw == 30 * Watt
y2_peltier_max_runtime == 120
y2_battery_capacity_kwh == 8500000
y2_peltier_efficiency_base == (6 * Unit) \div 10
y2_fan_power_draw == (25 * Watt) \div 100
y2_fan_efficiency_multiplier_base == (13 * Unit) \div 10
y2_fan_ramp_time == 1
y2_total_time_s == 31536000
y2_time_step_s == 5

KiloWattHour == 1000 * WattHour

\* battery_remaining_wh -= d, for 0 <= d < KiloWattHour (in 1/WattHour).
y2_BatterySub(b, d) ==
  IF b.frac >= d THEN [b EXCEPT !.frac = @ - d]
  ELSE [kwh |-> b.kwh - 1, frac |-> (KiloWattHour - d) + b.frac]

\* battery_level > kwh, battery_level < kwh, for a whole number of kWh.
y2_BatteryAbove(b, kwh) == b.kwh > kwh \/ (b.kwh = kwh /\ b.frac > 0)
y2_BatteryBelow(b, kwh) == b.kwh < kwh

y2_get_cpu_workload(time_s) ==
  LET base_load == (y2_cpu_power_watts * 85) \div 100
      variation ==
        (SinPi(time_s, 300 * 60) * ((y2_cpu_power_watts * 15) \div 100)) \div Unit
      intense_start1 == y2_total_time_s \div 10
      intense_end1 == intense_start1 + 3600 * 2
      intense_start2 == (y2_total_time_s \div 10) * 6
      intense_end2 == intense_start2 + 3600 * 4
  IN  IF \/ (intense_start1 < time_s /\ time_s < intense_end1)
         \/ (intense_start2 < time_s /\ time_s < intense_end2)
      THEN (y2_cpu_power_watts * 11) \div 10
      ELSE base_load + variation

y2_calculate_peltier_efficiency(cpu_temp, hot_side_temp) ==
  LET temp_diff == hot_side_temp - cpu_temp
      r == temp_diff \div 70
      quad == IF temp_diff >= 70 * DegC THEN 0
              ELSE (y2_peltier_efficiency_base * (Unit - (r * r) \div Unit)) \div Unit
      efficiency == IF hot_side_temp > 85 * DegC THEN quad \div 2 ELSE quad
  IN  IF temp_diff <= 0 THEN y2_peltier_efficiency_base
      ELSE Max(Unit \div 10, Min(y2_peltier_efficiency_base, efficiency))

y2_calculate_fan_multiplier(duty_cycle, is_post_purge, purge_timer) ==
  LET base_mult ==
        Unit + ((y2_fan_efficiency_multiplier_base - Unit) * duty_cycle) \div 100
      speed_factor == Unit + (duty_cycle * 7 * Unit) \div 1000
      decay_factor ==
        Max(0, Min(Unit, ((y2_conduction_duration - purge_timer) * Unit)
                           \div y2_conduction_duration))
      purge_boost == IF is_post_purge THEN Unit + decay_factor \div 2 ELSE Unit
  IN  IF duty_cycle <= 0 THEN Unit
      ELSE Scale(Scale(base_mult, speed_factor), purge_boost)

\* The module-level state before the loop (lines 41-75).
Y2Init ==
  [ pc |-> "loop",
    total_time_s |-> y2_total_time_s,
    n_steps |-> y2_total_time_s \div y2_time_step_s,
    t |-> 0,
    canisters |-> [i \in 0..1 |-> y2_cooling_capacity_joules],
    current_canister |-> 0,
    purge_count |-> 0,
    canister_swaps |-> 0,
    last_purge_time |-> 0 - 9999,
    temperature_c |-> y2_initial_temp_c,
    peak_temp_c |-> y2_initial_temp_c,
    events_len |-> 0,
    step_events |-> << >>,
    temperature_log |-> [len |-> 0, last |-> 0],
    peltier_active |-> FALSE,
    peltier_runtime_s |-> 0,
    battery_remaining_wh |-> [kwh |-> y2_battery_capacity_kwh, frac |-> 0],
    hot_side_temp_c |-> y2_initial_temp_c,
    cold_side_temp_c |-> y2_initial_temp_c,
    fan_active |-> FALSE,
    fan_duty_cycle |-> 0,
    fan_mode |-> "PASSIVE",
    post_purge_timer |-> 0,
    cooling_contribution |->
      [passive |-> 0, co2_hiss |-> 0, co2_purge |-> 0,
       canister_conduction |-> 0, peltier |-> 0, fan_boost |-> 0],
    seconds |-> 0,
    current_cpu_power |-> 0,
    time_since_last_purge |-> 0,
    is_post_purge |-> FALSE,
    passive_cooling |-> 0,
    conduction_cooling |-> 0,
    hiss_energy |-> 0,
    hiss_cooling |-> 0,
    peltier_cooling |-> 0,
    fan_multiplier |-> 0,
    total_cooling |-> 0 ]

\* Lines 214-237.
Y2Clock(s) ==
  LET seconds == s.t * y2_time_step_s
      time_since_last_purge == seconds - s.last_purge_time
      is_post_purge == 0 <= time_since_last_purge
                       /\ time_since_last_purge <= y2_conduction_duration
  IN  [s EXCEPT
        !.step_events = << >>,
        !.seconds = seconds,
        !.current_cpu_power = y2_get_cpu_workload(seconds),
        !.time_since_last_purge = time_since_last_purge,
        !.is_post_purge = is_post_purge,
        !.post_purge_timer =
            IF is_post_purge THEN y2_conduction_duration - time_since_last_purge ELSE 0,
        !.passive_cooling = y2_passive_dissipation_watts,
        !.conduction_cooling = IF is_post_purge THEN y2_conduction_watts ELSE 0]

\* Lines 239-258: a burst fires within the first time step of each cycle.
Y2Hiss(s) ==
  LET band == BurstBand(s.temperature_c)
      burst_now == /\ s.canisters[s.current_canister] > 0
                   /\ band.cycle_time > 0
                   /\ s.seconds % band.cycle_time < y2_time_step_s
      hiss_energy == IF burst_now THEN (band.burst_duration * 3 * Joule) \div 1000 ELSE 0
  IN  [s EXCEPT !.hiss_energy = hiss_energy,
                !.hiss_cooling = hiss_energy \div y2_time_step_s]

\* Lines 131-166, called at line 262.
y2_manage_peltier(s, cpu_temp, battery_level, co2_available, time_since_purge) ==
  LET should_activate ==
        /\ cpu_temp > 70 * DegC
        /\ y2_BatteryAbove(battery_level, (y2_battery_capacity_kwh * 5) \div 100)
        /\ s.peltier_runtime_s < y2_peltier_max_runtime
        /\ s.hot_side_temp_c < 90 * DegC
      should_deactivate ==
        \/ cpu_temp < 65 * DegC
        \/ y2_BatteryBelow(battery_level, (y2_battery_capacity_kwh * 3) \div 100)
        \/ s.hot_side_temp_c > 95 * DegC
        \/ s.peltier_runtime_s >= y2_peltier_max_runtime
      post_purge_boost == time_since_purge >= 0 /\ time_since_purge < 60
  IN  IF s.peltier_active
      THEN IF should_deactivate
           THEN [s EXCEPT !.peltier_active = FALSE, !.peltier_runtime_s = 0]
           ELSE s
      ELSE IF should_activate \/ post_purge_boost
           THEN IF y2_BatteryAbove(battery_level, (y2_battery_capacity_kwh * 5) \div 100)
                THEN [s EXCEPT !.peltier_active = TRUE]
                ELSE [s EXCEPT !.peltier_active = FALSE, !.peltier_runtime_s = 0]
           ELSE s

\* Lines 262-289.
Y2Peltier(s0) ==
  LET s == y2_manage_peltier(s0, s0.temperature_c, s0.battery_remaining_wh,
                             s0.canisters[s0.current_canister] > 50 * Joule,
                             s0.time_since_last_purge)
  IN  IF s.peltier_active
      THEN LET peltier_efficiency ==
                 y2_calculate_peltier_efficiency(s.temperature_c, s.hot_side_temp_c)
               peltier_cooling == Scale(y2_peltier_max_cooling_watts, peltier_efficiency)
               peltier_heat_generated == y2_peltier_power_draw + peltier_cooling
               hot_side_delta_t ==
                 ((peltier_heat_generated * DegC) \div (100 * Watt)
                  - (y2_passive_dissipation_watts * DegC) \div (10 * Watt)) * y2_time_step_s
           IN  [s EXCEPT
                 !.peltier_cooling = peltier_cooling,
                 !.hot_side_temp_c = Max(s.temperature_c, @ + hot_side_delta_t),
                 !.battery_remaining_wh =
                     y2_BatterySub(@, BatteryDraw(y2_peltier_power_draw, y2_time_step_s)),
                 !.peltier_runtime_s = @ + y2_time_step_s]
      ELSE [s EXCEPT
             !.peltier_cooling = 0,
             !.hot_side_temp_c =
                 Max(s.temperature_c, @ - ((@ - s.temperature_c) * y2_time_step_s) \div 10)]

\* Lines 168-206, called at line 292.
y2_manage_fan(s, cpu_temp, is_post_purge, seconds_since_purge) ==
  LET f == FanTarget(cpu_temp, is_post_purge, s.seconds)
      ramp_up_step == (100 \div y2_fan_ramp_time) * y2_time_step_s
      ramp_down_step == ramp_up_step \div 2
      ramped == IF f.target_duty > s.fan_duty_cycle
                THEN Min(f.target_duty, s.fan_duty_cycle + ramp_up_step)
                ELSE IF f.target_duty < s.fan_duty_cycle
                     THEN Max(f.target_duty, s.fan_duty_cycle - ramp_down_step)
                     ELSE s.fan_duty_cycle
      duty == Max(0, Min(100, ramped))
  IN  [s EXCEPT !.fan_mode = f.fan_mode, !.fan_duty_cycle = duty, !.fan_active = duty > 0]

\* Lines 292-320.
Y2Cooling(s0) ==
  LET s == y2_manage_fan(s0, s0.temperature_c, s0.is_post_purge, s0.time_since_last_purge)
      fan_multiplier ==
        y2_calculate_fan_multiplier(s.fan_duty_cycle, s.is_post_purge, s.post_purge_timer)
      enhanced_passive == Scale(s.passive_cooling, fan_multiplier)
      enhanced_conduction == Scale(s.conduction_cooling, fan_multiplier)
      enhanced_hiss == Scale(s.hiss_cooling, fan_multiplier)
      enhanced_peltier == Scale(s.peltier_cooling, fan_multiplier)
      total_cooling ==
        enhanced_passive + enhanced_conduction + enhanced_hiss + enhanced_peltier
      base_total_cooling ==
        s.passive_cooling + s.conduction_cooling + s.hiss_cooling + s.peltier_cooling
  IN  [s EXCEPT
        !.fan_multiplier = fan_multiplier,
        !.battery_remaining_wh =
            IF s.fan_active
            THEN y2_BatterySub(@, (BatteryDraw(y2_fan_power_draw, y2_time_step_s)
                                     * s.fan_duty_cycle) \div 100)
            ELSE @,
        !.total_cooling = total_cooling,
        !.cooling_contribution =
            [passive |-> @.passive + enhanced_passive * y2_time_step_s,
             canister_conduction |->
               @.canister_conduction + enhanced_conduction * y2_time_step_s,
             co2_hiss |-> @.co2_hiss + enhanced_hiss * y2_time_step_s,
             peltier |-> @.peltier + enhanced_peltier * y2_time_step_s,
             co2_purge |-> @.co2_purge,
             fan_boost |-> @.fan_boost
                             + (total_cooling - base_total_cooling) * y2_time_step_s]]

\* Lines 322-343: the emergency purge.
Y2Purge(s) ==
  LET needs_purge == s.temperature_c > y2_critical_temp_c
      maybe_purge == /\ s.temperature_c > y2_emergency_temp_c
                     /\ s.canisters[s.current_canister]
                          < (y2_cooling_capacity_joules * 15) \div 100
  IN  IF (needs_purge \/ maybe_purge)
         /\ s.canisters[s.current_canister] >= y2_cooling_effective_joules
      THEN [s EXCEPT
             !.temperature_c = @ - Scale(y2_cooldown_per_purge_c, s.fan_multiplier),
             !.canisters[s.current_canister] = @ - y2_cooling_effective_joules,
             !.purge_count = @ + 1,
             !.last_purge_time = s.seconds,
             !.cooling_contribution.co2_purge = @ + y2_cooling_effective_joules,
             !.events_len = @ + 1,
             !.step_events = Append(@, "EMERGENCY PURGE")]
      ELSE s

\* Lines 345-362: swap to the other canister, or refill both.
Y2SwapRefill(s) ==
  LET other_canister == 1 - s.current_canister
  IN  IF s.canisters[s.current_canister] < 50 * Joule
      THEN IF s.canisters[other_canister] > 50 * Joule
           THEN [s EXCEPT
                  !.current_canister = other_canister,
                  !.canister_swaps = @ + 1,
                  !.events_len = @ + 1,
                  !.step_events = Append(@, "CANISTER SWAP")]
           ELSE [s EXCEPT
                  !.canisters = [i \in 0..1 |-> y2_cooling_capacity_joules],
                  !.current_canister = 0,
                  !.canister_swaps = @ + 1,
                  !.events_len = @ + 1,
                  !.step_events = Append(@, "CANISTER REFILL")]
      ELSE s

\* Line 365.
Y2HissDebit(s) ==
  [s EXCEPT !.canisters[s.current_canister] = Max(0, @ - s.hiss_energy)]

\* Lines 368-396: integration, the floor at 0.8 x initial, the peak, the log,
\* the daily status event, and the halt on a depleted battery.
Y2Integrate(s) ==
  LET net_power == s.current_cpu_power - s.total_cooling
      delta_temp == (net_power * (DegC \div Watt) * y2_time_step_s)
                      \div y2_thermal_mass_j_per_c
      temperature_c == Max((y2_initial_temp_c * 8) \div 10, s.temperature_c + delta_temp)
      status == s.seconds > 0 /\ s.seconds % 86400 < y2_time_step_s
      depleted == ~y2_BatteryAbove(s.battery_remaining_wh, 0)
      events == (IF status THEN <<"STATUS">> ELSE << >>)
                \o (IF depleted THEN <<"CRITICAL">> ELSE << >>)
  IN  [s EXCEPT
        !.temperature_c = temperature_c,
        !.peak_temp_c = Max(@, temperature_c),
        !.temperature_log = [len |-> @.len + 1, last |-> temperature_c],
        !.events_len = @ + Len(events),
        !.step_events = @ \o events,
        !.n_steps = IF depleted THEN s.t + 1 ELSE @,
        !.total_time_s = IF depleted THEN s.seconds ELSE @,
        !.pc = IF depleted \/ s.t + 1 >= s.n_steps THEN "end" ELSE "loop",
        !.t = IF depleted THEN @ ELSE @ + 1]

\* Lines 213-396: one iteration of the loop.
Y2LoopBody(s) ==
  Y2Integrate(Y2HissDebit(Y2SwapRefill(Y2Purge(Y2Cooling(Y2Peltier(Y2Hiss(Y2Clock(s))))))))

(***************************************************************************)
(* simulation/laptopcoolingsim1yearsim3.py: a script, run once from its    *)
(* module-level initial state.  Fan duty cycles are floats there and are   *)
(* kept in 1/Percent percent, so that duty_cycle / 100.0 in 1/Unit is the  *)
(* same number; the battery (3.287e9 Wh) is kept like yearsim2's.          *)
(***************************************************************************)
Percent == Unit \div 100

\* Lines 16-49: the module-level parameters.
y3_config ==
  [ cpu_power_watts |-> (185 * Watt) \div 10,
    passive_dissipation_watts_at_10_delta |-> (15 * Watt) \div 10,
    thermal_mass_j_per_c |-> 300,
    initial_temp_c |-> 25 * DegC,
    critical_temp_c |-> 90 * DegC,
    emergency_temp_c |-> 78 * DegC,
    cooling_capacity_joules |-> 2900 * Joule,
    cooling_effective_joules |-> 2465 * Joule,
    conduction_watts |-> (22 * Watt) \div 10,
    conduction_duration |-> 180,
    peltier_max_cooling_watts |-> 15 * Watt,
    peltier_power_draw |-> 30 * Watt,
    peltier_max_runtime |-> 120,
    battery_capacity_kwh |-> 3287 * 1000,
    peltier_efficiency_base |-> (6 * Unit) \div 10,
    thermal_mass_hot_side_j_per_c |-> 50,
    k_hot_dissipation_w_per_c |-> Unit,
    fan_power_draw |-> (25 * Watt) \div 100,
    fan_efficiency_multiplier_base |-> (13 * Unit) \div 10,
    fan_efficiency_multiplier_max |-> (25 * Unit) \div 10,
    fan_ramp_time |-> Unit,
    total_time_s |-> 31536000,
    time_step_s |-> 5 ]

\* The largest i in lo..hi with i * i <= n (lo * lo <= n).
RECURSIVE ISqrtIn(_, _, _)
ISqrtIn(n, lo, hi) ==
  IF lo >= hi THEN lo
  ELSE LET mid == (lo + hi + 1) \div 2
       IN  IF mid * mid <= n THEN ISqrtIn(n, mid, hi) ELSE ISqrtIn(n, lo, mid - 1)

\* numpy.sqrt and x ** 0.5 on a ratio x in [0, 1]: sqrt(x) in 1/Unit.
Sqrt(x) == ISqrtIn(x * Unit, 0, Unit)

\* Lines 80-118.  noise is the value np.random.uniform(-0.05, 0.05) returns
\* in this call, in 1/Unit.
y3_get_cpu_workload(time_s, noise) ==
  LET base_load == (y3_config.cpu_power_watts * 75) \div 100
      week_seconds == time_s % (7 * 86400)
      week_multiplier == IF week_seconds < 5 * 86400 THEN 105 ELSE 95
      intense_start1 == (y3_config.total_time_s \div 100) * 12
      intense_end1 == intense_start1 + 3600 * 24 * 10
      intense_start2 == (y3_config.total_time_s \div 100) * 65
      intense_end2 == intense_start2 + 3600 * 24 * 15
      intense_load ==
        IF \/ (intense_start1 <= time_s /\ time_s < intense_end1)
           \/ (intense_start2 <= time_s /\ time_s < intense_end2)
        THEN (y3_config.cpu_power_watts * 40) \div 100 ELSE 0
      dynamic_load ==
        (base_load * week_multiplier) \div 100 + intense_load
          + (noise * y3_config.cpu_power_watts) \div Unit
  IN  Max((y3_config.cpu_power_watts * 20) \div 100,
          Min((y3_config.cpu_power_watts * 125) \div 100, dynamic_load))

\* Lines 121-136.  (delta_T / 70) ** 1.5 is r * sqrt(r); from 70 degrees on
\* the factor is clamped to 0.
y3_calculate_peltier_efficiency(cpu_temp, hot_side_temp) ==
  LET delta_T == hot_side_temp - cpu_temp
      r == delta_T \div 70
      efficiency_factor ==
        IF delta_T >= 70 * DegC THEN 0
        ELSE Max(0, Unit - (r * Sqrt(r)) \div Unit)
      efficiency == Scale(y3_config.peltier_efficiency_base, efficiency_factor)
      penalised == IF hot_side_temp > 95 * DegC THEN 0
                   ELSE IF hot_side_temp > 85 * DegC THEN efficiency \div 2
                   ELSE efficiency
  IN  IF delta_T <= 0 THEN y3_config.peltier_efficiency_base
      ELSE Max(0, Min(y3_config.peltier_efficiency_base, penalised))

\* Lines 139-157.  duty_cycle is in 1/Percent percent.
y3_calculate_fan_multiplier(duty_cycle, is_post_purge, current_post_purge_timer) ==
  LET base_mult ==
        Unit + Scale(y3_config.fan_efficiency_multiplier_base - Unit, duty_cycle)
      speed_factor == Unit + (Sqrt(duty_cycle) * 3) \div 10
      decay_factor ==
        Max(0, Min(Unit, (current_post_purge_timer * Unit)
                           \div y3_config.conduction_duration))
      purge_boost ==
        IF is_post_purge /\ y3_config.conduction_duration > 0
        THEN Unit + (7 * decay_factor) \div 10 ELSE Unit
      calculated_multiplier == Scale(Scale(base_mult, speed_factor), purge_boost)
  IN  IF duty_cycle <= 0 THEN Unit
      ELSE Min(calculated_multiplier, y3_config.fan_efficiency_multiplier_max)

\* Lines 160-187, on the script's state s.
y3_manage_peltier(s, cpu_temp, battery_level, hot_side_temp, time_since_purge) ==
  LET can_activate ==
        /\ y2_BatteryAbove(battery_level, (y3_config.battery_capacity_kwh * 5) \div 100)
        /\ hot_side_temp < 85 * DegC
      should_activate_temp == cpu_temp > 70 * DegC
      should_activate_post_purge == 0 <= time_since_purge /\ time_since_purge < 60
      activate_now ==
        can_activate /\ (should_activate_temp \/ should_activate_post_purge)
      deactivate_now ==
        \/ cpu_temp < 65 * DegC
        \/ y2_BatteryBelow(battery_level, (y3_config.battery_capacity_kwh * 3) \div 100)
        \/ hot_side_temp > 95 * DegC
        \/ s.peltier_runtime_s >= y3_config.peltier_max_runtime
  IN  IF s.peltier_active
      THEN IF deactivate_now
           THEN [s EXCEPT !.peltier_active = FALSE, !.peltier_runtime_s = 0]
           ELSE s
      ELSE IF activate_now THEN [s EXCEPT !.peltier_active = TRUE] ELSE s

\* Lines 189-221, on the script's state s.
y3_manage_fan(s, cpu_temp, is_post_purge) ==
  LET temp_range == Max(1 * DegC, y3_config.emergency_temp_c - 65 * DegC)
      f == IF cpu_temp < 50 * DegC /\ ~is_post_purge
           THEN [fan_mode |-> "PASSIVE", target_duty |-> 0]
           ELSE IF cpu_temp < 65 * DegC /\ ~is_post_purge
                THEN [fan_mode |-> "LOW", target_duty |-> 25 * Percent]
           ELSE IF is_post_purge
                THEN [fan_mode |-> "PURGE_ASSIST", target_duty |-> 85 * Percent]
           ELSE IF cpu_temp > y3_config.emergency_temp_c
                THEN [fan_mode |-> "EMERGENCY", target_duty |-> 100 * Percent]
           ELSE [fan_mode |-> "NORMAL",
                 target_duty |->
                   Min(100 * Percent,
                       40 * Percent
                         + ((cpu_temp - 65 * DegC) * 60 * Percent) \div temp_range)]
      ramp_step ==
        ((100 * Percent * Unit) \div Max(Unit \div 10, y3_config.fan_ramp_time))
          * y3_config.time_step_s
      ramped == IF f.target_duty > s.fan_duty_cycle
                THEN Min(f.target_duty, s.fan_duty_cycle + ramp_step)
                ELSE IF f.target_duty < s.fan_duty_cycle
                     THEN Max(f.target_duty, s.fan_duty_cycle - ramp_step)
                     ELSE s.fan_duty_cycle
      duty == Max(0, Min(100 * Percent, ramped))
  IN  [s EXCEPT !.fan_mode = f.fan_mode, !.fan_duty_cycle = duty, !.fan_active = duty > 0]

\* Lines 52-76: the module-level state before the loop.
Y3Init ==
  [ pc |-> "loop",
    total_time_s |-> y3_config.total_time_s,
    n_steps |-> y3_config.total_time_s \div y3_config.time_step_s,
    t |-> 0,
    canisters |-> [i \in 0..1 |-> y3_config.cooling_capacity_joules],
    current_canister |-> 0,
    purge_count |-> 0,
    canister_swaps |-> 0,
    last_purge_time |-> 0 - y3_config.conduction_duration - 1,
    temperature_c |-> y3_config.initial_temp_c,
    peak_temp_c |-> y3_config.initial_temp_c,
    events_len |-> 1,
    step_events |-> << >>,
    temperature_log |-> [len |-> 0, last |-> 0],
    peltier_active |-> FALSE,
    peltier_runtime_s |-> 0,
    battery_remaining_wh |-> [kwh |-> y3_config.battery_capacity_kwh, frac |-> 0],
    hot_side_temp_c |-> y3_config.initial_temp_c,
    fan_active |-> FALSE,
    fan_duty_cycle |-> 0,
    fan_mode |-> "PASSIVE",
    post_purge_timer |-> 0,
    cooling_contribution |->
      [passive |-> 0, co2_hiss |-> 0, co2_purge |-> 0,
       canister_conduction |-> 0, peltier |-> 0, fan_boost |-> 0],
    total_cpu_heat_joules |-> 0,
    seconds |-> 0,
    current_cpu_power |-> 0,
    time_since_last_purge |-> 0,
    is_post_purge |-> FALSE,
    fan_multiplier |-> 0,
    peltier_cooling_watts |-> 0,
    passive_cooling_watts |-> 0,
    conduction_cooling_watts |-> 0,
    hiss_cooling_watts |-> 0,
    hiss_energy_joules |-> 0 ]

\* Lines 229-245: the workload (with this step's noise), the timers, the fan
\* and the Peltier decision.
Y3Control(s0, noise) ==
  LET seconds == s0.t * y3_config.time_step_s
      current_cpu_power == y3_get_cpu_workload(seconds, noise)
      time_since_last_purge == seconds - s0.last_purge_time
      is_post_purge == 0 <= time_since_last_purge
                       /\ time_since_last_purge <= y3_config.conduction_duration
      post_purge_timer ==
        IF is_post_purge
        THEN Max(0, y3_config.conduction_duration - time_since_last_purge) ELSE 0
      s1 == y3_manage_fan(s0, s0.temperature_c, is_post_purge)
      s2 == y3_manage_peltier(s1, s1.temperature_c, s1.battery_remaining_wh,
                              s1.hot_side_temp_c, time_since_last_purge)
  IN  [s2 EXCEPT
        !.step_events = << >>,
        !.seconds = seconds,
        !.current_cpu_power = current_cpu_power,
        !.total_cpu_heat_joules = @ + current_cpu_power * y3_config.time_step_s,
        !.time_since_last_purge = time_since_last_purge,
        !.is_post_purge = is_post_purge,
        !.post_purge_timer = post_purge_timer,
        !.fan_multiplier =
            y3_calculate_fan_multiplier(s1.fan_duty_cycle, is_post_purge, post_purge_timer)]

\* Lines 247-317: the Peltier and its hot side, passive, conduction and hiss
\* cooling, and the integration of the main thermal mass.
Y3Cooling(s) ==
  LET dt == y3_config.time_step_s
      hot_side_delta_T_ambient == s.hot_side_temp_c - y3_config.initial_temp_c
      hot_side_dissipation_watts ==
        IF hot_side_delta_T_ambient > 0
        THEN Scale(Scale((hot_side_delta_T_ambient * Watt) \div DegC,
                         y3_config.k_hot_dissipation_w_per_c), s.fan_multiplier)
        ELSE 0
      peltier_efficiency ==
        y3_calculate_peltier_efficiency(s.temperature_c, s.hot_side_temp_c)
      peltier_cooling_watts ==
        IF s.peltier_active
        THEN Scale(y3_config.peltier_max_cooling_watts, peltier_efficiency) ELSE 0
      peltier_heat_generated_watts ==
        IF s.peltier_active
        THEN y3_config.peltier_power_draw + peltier_cooling_watts ELSE 0
      net_power_hot_side == peltier_heat_generated_watts - hot_side_dissipation_watts
      delta_temp_hot ==
        (net_power_hot_side * (DegC \div Watt) * dt)
          \div y3_config.thermal_mass_hot_side_j_per_c
      passive_cooling_watts ==
        ((Max(0, s.temperature_c - y3_config.initial_temp_c) \div 10)
           * y3_config.passive_dissipation_watts_at_10_delta) \div DegC
      conduction_cooling_watts ==
        IF s.is_post_purge THEN y3_config.conduction_watts ELSE 0
      band == BurstBand(s.temperature_c)
      burst_now == /\ s.canisters[s.current_canister] > 0
                   /\ band.cycle_time > 0
                   /\ s.seconds % band.cycle_time < dt
      hiss_energy_joules ==
        IF burst_now
        THEN Min((band.burst_duration * 3 * Joule) \div 1000,
                 s.canisters[s.current_canister])
        ELSE 0
      hiss_cooling_watts == hiss_energy_joules \div dt
      total_continuous_cooling_watts ==
        Scale(passive_cooling_watts, s.fan_multiplier)
          + Scale(conduction_cooling_watts, s.fan_multiplier)
          + Scale(hiss_cooling_watts, s.fan_multiplier)
          + peltier_cooling_watts
      net_power_system == s.current_cpu_power - total_continuous_cooling_watts
      delta_temp ==
        (net_power_system * (DegC \div Watt) * dt) \div y3_config.thermal_mass_j_per_c
  IN  [s EXCEPT
        !.peltier_cooling_watts = peltier_cooling_watts,
        !.peltier_runtime_s = IF s.peltier_active THEN @ + dt ELSE @,
        !.battery_remaining_wh =
            IF s.peltier_active
            THEN y2_BatterySub(@, BatteryDraw(y3_config.peltier_power_draw, dt)) ELSE @,
        !.hot_side_temp_c = Max(y3_config.initial_temp_c, @ + delta_temp_hot),
        !.passive_cooling_watts = passive_cooling_watts,
        !.conduction_cooling_watts = conduction_cooling_watts,
        !.hiss_energy_joules = hiss_energy_joules,
        !.hiss_cooling_watts = hiss_cooling_watts,
        !.temperature_c = @ + delta_temp]

\* Lines 319-341: the emergency purge; its drop grows by 10% at full fan.
Y3Purge(s) ==
  LET cur == s.current_canister
      needs_critical_purge == s.temperature_c > y3_config.critical_temp_c
      needs_preemptive_purge ==
        /\ s.temperature_c > y3_config.emergency_temp_c + 5 * DegC
        /\ s.canisters[cur] < (y3_config.cooling_effective_joules * 2) \div 10
        /\ s.canisters[1 - cur] < 50 * Joule
      purge_joules_used == y3_config.cooling_effective_joules
      effective_purge_joules ==
        purge_joules_used
          + ((purge_joules_used \div Joule) * (s.fan_duty_cycle \div 10))
              \div (Unit \div Joule)
      purge_temp_drop ==
        (effective_purge_joules * (DegC \div Joule)) \div y3_config.thermal_mass_j_per_c
  IN  IF (needs_critical_purge \/ needs_preemptive_purge)
         /\ s.canisters[cur] >= y3_config.cooling_effective_joules
      THEN [s EXCEPT
             !.temperature_c = @ - purge_temp_drop,
             !.canisters[cur] = @ - purge_joules_used,
             !.purge_count = @ + 1,
             !.last_purge_time = s.seconds,
             !.cooling_contribution.co2_purge = @ + effective_purge_joules,
             !.events_len = @ + 1,
             !.step_events = Append(@, "PURGE")]
      ELSE s

\* Lines 343-354: swap to a usable canister, else refill both.
Y3SwapRefill(s) ==
  LET other_canister == 1 - s.current_canister
  IN  IF s.canisters[s.current_canister] < 50 * Joule
      THEN IF s.canisters[other_canister] > 50 * Joule
           THEN [s EXCEPT
                  !.current_canister = other_canister,
                  !.canister_swaps = @ + 1,
                  !.events_len = @ + 1,
                  !.step_events = Append(@, "SWAP")]
           ELSE [s EXCEPT
                  !.canisters = [i \in 0..1 |-> y3_config.cooling_capacity_joules],
                  !.current_canister = 0,
                  !.canister_swaps = @ + 1,
                  !.events_len = @ + 1,
                  !.step_events = Append(@, "REFILL")]
      ELSE s

\* Lines 356-401: the hiss and fan consumptions, the contribution totals, the
\* temperature floor, the log, the weekly status and the halt on an empty
\* battery.
Y3Account(s) ==
  LET dt == y3_config.time_step_s
      battery ==
        IF s.fan_active
        THEN y2_BatterySub(s.battery_remaining_wh,
               Scale(BatteryDraw(y3_config.fan_power_draw, dt), s.fan_duty_cycle))
        ELSE s.battery_remaining_wh
      enhanced_passive == Scale(s.passive_cooling_watts, s.fan_multiplier)
      enhanced_conduction == Scale(s.conduction_cooling_watts, s.fan_multiplier)
      enhanced_hiss == Scale(s.hiss_cooling_watts, s.fan_multiplier)
      fan_boost ==
        (enhanced_passive - s.passive_cooling_watts)
          + (enhanced_conduction - s.conduction_cooling_watts)
          + (enhanced_hiss - s.hiss_cooling_watts)
      temperature_c == Max((y3_config.initial_temp_c * 9) \div 10, s.temperature_c)
      status == s.seconds > 0 /\ s.seconds % (7 * 86400) < dt
      depleted == ~y2_BatteryAbove(battery, 0)
      events == (IF status THEN <<"STATUS">> ELSE << >>)
                \o (IF depleted THEN <<"CRITICAL">> ELSE << >>)
  IN  [s EXCEPT
        !.canisters[s.current_canister] = Max(0, @ - s.hiss_energy_joules),
        !.battery_remaining_wh = battery,
        !.cooling_contribution.passive = @ + enhanced_passive * dt,
        !.cooling_contribution.canister_conduction = @ + enhanced_conduction * dt,
        !.cooling_contribution.co2_hiss = @ + enhanced_hiss * dt,
        !.cooling_contribution.peltier = @ + s.peltier_cooling_watts * dt,
        !.cooling_contribution.fan_boost = @ + fan_boost * dt,
        !.temperature_c = temperature_c,
        !.temperature_log = [len |-> @.len + 1, last |-> temperature_c],
        !.peak_temp_c = Max(@, temperature_c),
        !.events_len = @ + Len(events),
        !.step_events = @ \o events,
        !.n_steps = IF depleted THEN s.t + 1 ELSE @,
        !.total_time_s = IF depleted THEN s.seconds ELSE @,
        !.pc = IF depleted \/ s.t + 1 >= s.n_steps THEN "end" ELSE "loop",
        !.t = IF depleted THEN @ ELSE @ + 1]

\* Lines 228-401: one iteration of the loop, with the noise drawn in it.
Y3LoopBody(s, noise) == Y3Account(Y3SwapRefill(Y3Purge(Y3Cooling(Y3Control(s, noise)))))

(***************************************************************************)
(* simulation/laptopcoolingsim1yearsim4o1-pro.py: a script, run once from  *)
(* its module-level initial state.  Its battery (8.5e9 Wh) is kept like    *)
(* yearsim2's.  at_swap is the fill of the canisters and the active index  *)
(* as the swap / refill block of the latest iteration found them.          *)
(***************************************************************************)
\* Lines 17-51: the parameters.
pro_config ==
  [ cpu_power_watts |-> (185 * Watt) \div 10,
    passive_dissipation_watts |-> (15 * Watt) \div 10,
    thermal_mass_j_per_c |-> 300,
    initial_temp_c |-> 25 * DegC,
    critical_temp_c |-> 90 * DegC,
    emergency_temp_c |-> 75 * DegC,
    cooling_capacity_joules |-> 2900 * Joule,
    cooling_effective_joules |-> (2900 * Joule * 85) \div 100,
    cooldown_per_purge_c |-> (((2900 * 85) \div 100) * DegC) \div 300,
    conduction_watts |-> (22 * Watt) \div 10,
    conduction_duration |-> 180,
    peltier_max_cooling_watts |-> 30 * Watt,
    peltier_power_draw |-> 30 * Watt,
    peltier_max_runtime |-> 120,
    peltier_efficiency_base |-> (6 * Unit) \div 10,
    battery_capacity_kwh |-> 8500000,
    fan_power_draw |-> (25 * Watt) \div 100,
    fan_efficiency_multiplier_base |-> (13 * Unit) \div 10,
    fan_ramp_time |-> 1,
    total_time_s |-> 31536000,
    time_step_s |-> 5 ]

\* Lines 90-107.
pro_get_cpu_workload(time_s) ==
  LET base_load == (pro_config.cpu_power_watts * 85) \div 100
      variation ==
        (SinPi(time_s, 300 * 60) * ((pro_config.cpu_power_watts * 15) \div 100)) \div Unit
      intense_start1 == pro_config.total_time_s \div 10
      intense_end1 == intense_start1 + 7200
      intense_start2 == (pro_config.total_time_s \div 10) * 6
      intense_end2 == intense_start2 + 14400
  IN  IF \/ (intense_start1 < time_s /\ time_s < intense_end1)
         \/ (intense_start2 < time_s /\ time_s < intense_end2)
      THEN (pro_config.cpu_power_watts * 11) \div 10
      ELSE base_load + variation

\* Lines 109-125.
pro_calculate_peltier_efficiency(cpu_temp, hot_side_temp) ==
  LET temp_diff == hot_side_temp - cpu_temp
      r == temp_diff \div 70
      quad == IF temp_diff >= 70 * DegC THEN 0
              ELSE (pro_config.peltier_efficiency_base * (Unit - (r * r) \div Unit))
                     \div Unit
      efficiency == IF hot_side_temp > 85 * DegC THEN quad \div 2 ELSE quad
  IN  IF temp_diff <= 0 THEN pro_config.peltier_efficiency_base
      ELSE Max(Unit \div 10, Min(pro_config.peltier_efficiency_base, efficiency))

\* Lines 127-144.
pro_calculate_fan_multiplier(duty_cycle, is_post_purge, purge_timer) ==
  LET base_mult ==
        Unit + ((pro_config.fan_efficiency_multiplier_base - Unit) * duty_cycle) \div 100
      speed_factor == Unit + (duty_cycle * 7 * Unit) \div 1000
      decay_factor ==
        Max(0, Min(Unit, ((pro_config.conduction_duration - purge_timer) * Unit)
                           \div pro_config.conduction_duration))
      purge_boost == IF is_post_purge THEN Unit + decay_factor \div 2 ELSE Unit
  IN  IF duty_cycle <= 0 THEN Unit
      ELSE Scale(Scale(base_mult, speed_factor), purge_boost)

\* Lines 39-40, 52-86: the module-level state before the loop; line 222.
ProInit ==
  [ pc |-> "loop",
    total_time_s |-> pro_config.total_time_s,
    n_steps |-> pro_config.total_time_s \div pro_config.time_step_s,
    t |-> 0,
    canisters |-> [i \in 0..1 |-> pro_config.cooling_capacity_joules],
    current_canister |-> 0,
    purge_count |-> 0,
    canister_swaps |-> 0,
    last_purge_time |-> 0 - 9999,
    last_swap_log_time |-> 0 - 9999999,
    temperature_c |-> pro_config.initial_temp_c,
    peak_temp_c |-> pro_config.initial_temp_c,
    events_len |-> 0,
    step_events |-> << >>,
    temperature_log |-> [len |-> 0, last |-> 0],
    peltier_active |-> TRUE,
    peltier_runtime_s |-> 0,
    battery_remaining_wh |-> [kwh |-> pro_config.battery_capacity_kwh, frac |-> 0],
    hot_side_temp_c |-> pro_config.initial_temp_c,
    cold_side_temp_c |-> pro_config.initial_temp_c,
    fan_active |-> TRUE,
    fan_duty_cycle |-> 0,
    fan_mode |-> "PASSIVE",
    post_purge_timer |-> 0,
    cooling_contribution |->
      [passive |-> 0, co2_hiss |-> 0, co2_purge |-> 0,
       canister_conduction |-> 0, peltier |-> 0, fan_boost |-> 0],
    seconds |-> 0,
    current_cpu_power |-> 0,
    time_since_last_purge |-> 0,
    is_post_purge |-> FALSE,
    base_passive_cooling |-> 0,
    base_conduction_cooling |-> 0,
    hiss_energy |-> 0,
    base_hiss_cooling |-> 0,
    base_peltier_cooling |-> 0,
    fan_multiplier |-> 0,
    total_cooling |-> 0,
    at_swap |-> [canisters |-> [i \in 0..1 |-> pro_config.cooling_capacity_joules],
                 current_canister |-> 0] ]

\* Lines 224-240.
ProClock(s) ==
  LET seconds == s.t * pro_config.time_step_s
      time_since_last_purge == seconds - s.last_purge_time
      is_post_purge == 0 <= time_since_last_purge
                       /\ time_since_last_purge <= pro_config.conduction_duration
  IN  [s EXCEPT
        !.step_events = << >>,
        !.seconds = seconds,
        !.current_cpu_power = pro_get_cpu_workload(seconds),
        !.time_since_last_purge = time_since_last_purge,
        !.is_post_purge = is_post_purge,
        !.post_purge_timer =
            IF is_post_purge
            THEN pro_config.conduction_duration - time_since_last_purge ELSE 0,
        !.base_passive_cooling = pro_config.passive_dissipation_watts,
        !.base_conduction_cooling =
            IF is_post_purge THEN pro_config.conduction_watts ELSE 0]

\* Lines 242-263: the bands begin at 50 here, and a burst fires within the
\* first time step of each cycle.
ProHiss(s) ==
  LET band ==
        IF s.temperature_c < 50 * DegC THEN [burst_duration |-> 300, cycle_time |-> 8]
        ELSE IF 50 * DegC <= s.temperature_c /\ s.temperature_c < 70 * DegC
             THEN [burst_duration |-> 500, cycle_time |-> 5]
        ELSE IF 70 * DegC <= s.temperature_c /\ s.temperature_c < 75 * DegC
             THEN [burst_duration |-> 700, cycle_time |-> 4]
        ELSE [burst_duration |-> 1000, cycle_time |-> 3]
      burst_now == /\ s.canisters[s.current_canister] > 0
                   /\ band.cycle_time > 0
                   /\ s.seconds % band.cycle_time < pro_config.time_step_s
      hiss_energy == IF burst_now THEN (band.burst_duration * 3 * Joule) \div 1000 ELSE 0
  IN  [s EXCEPT !.hiss_energy = hiss_energy,
                !.base_hiss_cooling = hiss_energy \div pro_config.time_step_s]

\* Lines 146-176, called at line 266.
pro_manage_peltier(s, cpu_temp, battery_level, co2_ok, time_since_purge) ==
  LET reserve == (pro_config.battery_capacity_kwh * 5) \div 100
      should_activate ==
        /\ cpu_temp > 70 * DegC
        /\ y2_BatteryAbove(battery_level, reserve)
        /\ s.peltier_runtime_s < pro_config.peltier_max_runtime
        /\ s.hot_side_temp_c < 90 * DegC
      should_deactivate ==
        \/ cpu_temp < 65 * DegC
        \/ y2_BatteryBelow(battery_level, (pro_config.battery_capacity_kwh * 3) \div 100)
        \/ s.peltier_runtime_s >= pro_config.peltier_max_runtime
      post_purge_boost == time_since_purge >= 0 /\ time_since_purge < 60
  IN  IF s.peltier_active
      THEN IF should_deactivate
           THEN [s EXCEPT !.peltier_active = FALSE, !.peltier_runtime_s = 0]
           ELSE s
      ELSE IF should_activate \/ post_purge_boost
           THEN IF y2_BatteryAbove(battery_level, reserve)
                THEN [s EXCEPT !.peltier_active = TRUE]
                ELSE [s EXCEPT !.peltier_active = FALSE, !.peltier_runtime_s = 0]
           ELSE s

\* Lines 265-286.
ProPeltier(s0) ==
  LET s == pro_manage_peltier(s0, s0.temperature_c, s0.battery_remaining_wh,
                              s0.canisters[s0.current_canister] > 50 * Joule,
                              s0.time_since_last_purge)
  IN  IF s.peltier_active
      THEN LET peltier_eff ==
                 pro_calculate_peltier_efficiency(s.temperature_c, s.hot_side_temp_c)
               base_peltier_cooling ==
                 Scale(pro_config.peltier_max_cooling_watts, peltier_eff)
               peltier_heat_generated == pro_config.peltier_power_draw + base_peltier_cooling
               hot_side_delta_t ==
                 ((peltier_heat_generated * DegC) \div (100 * Watt)
                  - (pro_config.passive_dissipation_watts * DegC) \div (10 * Watt))
                 * pro_config.time_step_s
           IN  [s EXCEPT
                 !.base_peltier_cooling = base_peltier_cooling,
                 !.hot_side_temp_c = Max(s.temperature_c, @ + hot_side_delta_t),
                 !.battery_remaining_wh =
                     y2_BatterySub(@, BatteryDraw(pro_config.peltier_power_draw,
                                                  pro_config.time_step_s)),
                 !.peltier_runtime_s = @ + pro_config.time_step_s]
      ELSE [s EXCEPT
             !.base_peltier_cooling = 0,
             !.hot_side_temp_c =
                 Max(s.temperature_c,
                     @ - ((@ - s.temperature_c) * pro_config.time_step_s) \div 10)]

\* Lines 178-216, called at line 289.
pro_manage_fan(s, cpu_temp, is_post_purge, seconds_since_purge, current_time) ==
  LET f == IF cpu_temp < 50 * DegC /\ ~is_post_purge
           THEN [fan_mode |-> "PASSIVE", target_duty |-> 0]
           ELSE IF cpu_temp < 50 * DegC
                THEN [fan_mode |-> "SLOW_HISS",
                      target_duty |-> IF current_time % 15 = 0 THEN 30 ELSE 0]
           ELSE IF is_post_purge THEN [fan_mode |-> "PURGE", target_duty |-> 70]
           ELSE IF cpu_temp > 70 * DegC
                THEN [fan_mode |-> "EMERGENCY", target_duty |-> 100]
           ELSE [fan_mode |-> "NORMAL", target_duty |-> 50]
      ramp_up_step == (100 \div pro_config.fan_ramp_time) * pro_config.time_step_s
      ramp_down_step == ramp_up_step \div 2
      ramped == IF f.target_duty > s.fan_duty_cycle
                THEN Min(f.target_duty, s.fan_duty_cycle + ramp_up_step)
                ELSE IF f.target_duty < s.fan_duty_cycle
                     THEN Max(f.target_duty, s.fan_duty_cycle - ramp_down_step)
                     ELSE s.fan_duty_cycle
      duty == Max(0, Min(100, ramped))
  IN  [s EXCEPT !.fan_mode = f.fan_mode, !.fan_duty_cycle = duty, !.fan_active = duty > 0]

\* Lines 288-328: the fan, its battery draw, the boosted total, and the
\* contributions tracked by their base (unboosted) parts.
ProCooling(s0) ==
  LET s == pro_manage_fan(s0, s0.temperature_c, s0.is_post_purge,
                          s0.time_since_last_purge, s0.seconds)
      fan_multiplier ==
        pro_calculate_fan_multiplier(s.fan_duty_cycle, s.is_post_purge, s.post_purge_timer)
      base_total_cooling ==
        s.base_passive_cooling + s.base_conduction_cooling
          + s.base_hiss_cooling + s.base_peltier_cooling
      total_cooling ==
        Scale(s.base_passive_cooling, fan_multiplier)
          + Scale(s.base_conduction_cooling, fan_multiplier)
          + Scale(s.base_hiss_cooling, fan_multiplier)
          + Scale(s.base_peltier_cooling, fan_multiplier)
      dt_joules == pro_config.time_step_s
  IN  [s EXCEPT
        !.fan_multiplier = fan_multiplier,
        !.battery_remaining_wh =
            IF s.fan_active
            THEN y2_BatterySub(@, (BatteryDraw(pro_config.fan_power_draw,
                                               pro_config.time_step_s)
                                     * s.fan_duty_cycle) \div 100)
            ELSE @,
        !.total_cooling = total_cooling,
        !.cooling_contribution =
            [passive |-> @.passive + s.base_passive_cooling * dt_joules,
             canister_conduction |->
               @.canister_conduction + s.base_conduction_cooling * dt_joules,
             co2_hiss |-> @.co2_hiss + s.base_hiss_cooling * dt_joules,
             peltier |-> @.peltier + s.base_peltier_cooling * dt_joules,
             co2_purge |-> @.co2_purge,
             fan_boost |-> @.fan_boost + (total_cooling - base_total_cooling) * dt_joules]]

\* Lines 330-349: the emergency purge.
ProPurge(s) ==
  LET needs_purge == s.temperature_c > pro_config.critical_temp_c
      maybe_purge == /\ s.temperature_c > pro_config.emergency_temp_c
                     /\ s.canisters[s.current_canister]
                          < (pro_config.cooling_capacity_joules * 15) \div 100
  IN  IF (needs_purge \/ maybe_purge)
         /\ s.canisters[s.current_canister] >= pro_config.cooling_effective_joules
      THEN [s EXCEPT
             !.temperature_c = @ - Scale(pro_config.cooldown_per_purge_c, s.fan_multiplier),
             !.canisters[s.current_canister] = @ - pro_config.cooling_effective_joules,
             !.purge_count = @ + 1,
             !.last_purge_time = s.seconds,
             !.cooling_contribution.co2_purge = @ + pro_config.cooling_effective_joules,
             !.events_len = @ + 1,
             !.step_events = Append(@, "EMERG-PURGE")]
      ELSE s

\* Lines 352-375: swap to the other canister, or "refill": each canister
\* becomes min(cooling_capacity_joules, c).  An event is logged at most once
\* a week.
ProSwapRefill(s0) ==
  LET s == [s0 EXCEPT !.at_swap = [canisters |-> s0.canisters,
                                   current_canister |-> s0.current_canister]]
      other_canister == 1 - s.current_canister
      logged == s.seconds - s.last_swap_log_time > 604800
  IN  IF s.canisters[s.current_canister] < 50 * Joule
      THEN IF s.canisters[other_canister] > 50 * Joule
           THEN [s EXCEPT
                  !.current_canister = other_canister,
                  !.canister_swaps = @ + 1,
                  !.events_len = IF logged THEN @ + 1 ELSE @,
                  !.step_events = IF logged THEN Append(@, "WEEKLY-SWAP-LOG") ELSE @,
                  !.last_swap_log_time = IF logged THEN s.seconds ELSE @]
           ELSE [s EXCEPT
                  !.canisters =
                      [i \in 0..1 |-> Min(pro_config.cooling_capacity_joules, s.canisters[i])],
                  !.current_canister = 0,
                  !.canister_swaps = @ + 1,
                  !.events_len = IF logged THEN @ + 1 ELSE @,
                  !.step_events = IF logged THEN Append(@, "WEEKLY-REFILL-LOG") ELSE @,
                  !.last_swap_log_time = IF logged THEN s.seconds ELSE @]
      ELSE s

\* Lines 378-380.
ProHissDebit(s) ==
  IF s.hiss_energy > 0
  THEN [s EXCEPT !.canisters[s.current_canister] = Max(0, @ - s.hiss_energy)]
  ELSE s

\* Lines 382-408: integration, the floor at 0.8 x initial, the peak, the log,
\* the daily status event, and the halt on a depleted battery.
ProIntegrate(s) ==
  LET net_power == s.current_cpu_power - s.total_cooling
      delta_temp == (net_power * (DegC \div Watt) * pro_config.time_step_s)
                      \div pro_config.thermal_mass_j_per_c
      temperature_c ==
        Max((pro_config.initial_temp_c * 8) \div 10, s.temperature_c + delta_temp)
      status == s.seconds > 0 /\ s.seconds % 86400 < pro_config.time_step_s
      depleted == ~y2_BatteryAbove(s.battery_remaining_wh, 0)
      events == (IF status THEN <<"STATUS">> ELSE << >>)
                \o (IF depleted THEN <<"CRITICAL">> ELSE << >>)
  IN  [s EXCEPT
        !.temperature_c = temperature_c,
        !.peak_temp_c = Max(@, temperature_c),
        !.temperature_log = [len |-> @.len + 1, last |-> temperature_c],
        !.events_len = @ + Len(events),
        !.step_events = @ \o events,
        !.n_steps = IF depleted THEN s.t + 1 ELSE @,
        !.total_time_s = IF depleted THEN s.seconds ELSE @,
        !.pc = IF depleted \/ s.t + 1 >= s.n_steps THEN "end" ELSE "loop",
        !.t = IF depleted THEN @ ELSE @ + 1]

\* Lines 223-408: one iteration of the loop.
ProLoopBody(s) ==
  ProIntegrate(ProHissDebit(ProSwapRefill(ProPurge(ProCooling(ProPeltier(ProHiss(ProClock(s))))))))

(***************************************************************************)
(* simulation/tactical_cooling_sim.py: class CoolingSystem and the loop of  *)
(* main().  Temperatures are kept in 1/MicroDeg degree (C or K), the        *)
(* battery in 1/CsWattHour Wh (watt seconds), energies in whole joules,     *)
(* pressures in whole pascals, conductivities and the canister volume in    *)
(* 1/Unit.                                                                  *)
(***************************************************************************)
MicroDeg == 10^6
CsWattHour == 60 * 60

\* Lines 40-42: R_UNIVERSAL in 1/1000 J/(mol K), M_CO2 in 1/100 g/mol,
\* CP_CO2 in J/(kg K).
PHYSICAL_CONSTANTS == [R_UNIVERSAL |-> 8314, M_CO2 |-> 4401, CP_CO2 |-> 844]

\* Lines 102-158: the sub-environments of PLANETS, each with the mean and the
\* amplitude (degrees C) of its planet's diurnal temperature (lines 68-100).
SubEnvironment(name) ==
  CASE name = "Crater Base" ->
         [thermal_conductivity |-> (5 * Unit) \div 1000, avg_temp |-> 0 - 30, amp |-> 30]
    [] name = "Urban" ->
         [thermal_conductivity |-> (3 * Unit) \div 100, avg_temp |-> 15, amp |-> 10]
    [] name = "Desert" ->
         [thermal_conductivity |-> (25 * Unit) \div 1000, avg_temp |-> 15, amp |-> 10]
    [] name = "Surface" ->
         [thermal_conductivity |-> Unit \div 10000, avg_temp |-> 0 - 25, amp |-> 125]

\* Lines 68-100: avg_temp + amp * np.sin(2.0 * np.pi * t_s / period), with
\* period = 24 * 3600.0.
ambient_temp_func(env, t_s) ==
  env.avg_temp * MicroDeg + env.amp * SinPi(t_s, 12 * 3600) * (MicroDeg \div Unit)

\* Lines 173-219: CoolingSystem.__init__ with main()'s arguments (lines
\* 433-442), the initial temperature left open.  time_log_last and
\* state_log_last are time_log[-1] and state_log[-1].
CoolingSystem(initial_temp) ==
  [ temperature_c |-> initial_temp,
    system_heat_capacity |-> 2000,
    tec_on |-> FALSE,
    fan_on |-> FALSE,
    battery_wh |-> 200 * CsWattHour,
    canisters |-> [i \in 1..2 |->
                     [ energy_j |-> 300000,
                       pressure_pa |-> 5000000,
                       volume_m3 |-> Unit \div 100,
                       temperature_k |-> 293 * MicroDeg ]],
    current_canister_idx |-> 0,
    conduction_canister_k |-> (2 * Unit) \div 100,
    time_log_len |-> 0,
    time_log_last |-> 0,
    state_log_last |-> "none",
    state |-> "IDLE",
    last_burst_time |-> 0 - 999,
    burst_interval |-> 5 ]

\* Lines 221-222.
get_current_canister(s) == s.canisters[s.current_canister_idx + 1]

\* Lines 224-231: the first canister with energy left, if any.
swap_canister(s) ==
  LET left == {i \in 1..Len(s.canisters) : s.canisters[i].energy_j > 0}
  IN  IF left = {} THEN s
      ELSE [s EXCEPT !.current_canister_idx =
                       (CHOOSE i \in left : \A j \in left : i <= j) - 1]

\* Lines 342-346: joules / system_heat_capacity off the temperature, not below
\* -100 degrees.
cs_remove_heat(s, joules) ==
  LET delta_t == ((joules * Unit) \div s.system_heat_capacity) * (MicroDeg \div Unit)
  IN  [s EXCEPT !.temperature_c = Max(s.temperature_c - delta_t, 0 - 100 * MicroDeg)]

\* Lines 233-276.
canister_cooling_burst(s, dt) ==
  LET now == IF s.time_log_len > 0 THEN s.time_log_last ELSE 0
      swapped == IF get_current_canister(s).energy_j <= 0 THEN swap_canister(s) ELSE s
      canister == get_current_canister(swapped)
      burst_joules == 2000
      used_joules == Min(burst_joules, canister.energy_j)
      fraction_used == (used_joules * Unit) \div burst_joules
      cooled == cs_remove_heat(swapped, used_joules)
      idx == swapped.current_canister_idx + 1
  IN  IF now - s.last_burst_time < s.burst_interval THEN s
      ELSE IF canister.energy_j <= 0 THEN swapped
      ELSE [cooled EXCEPT
              !.canisters[idx].energy_j = @ - used_joules,
              !.canisters[idx].pressure_pa = @ - ((@ \div 100) * fraction_used) \div Unit,
              !.canisters[idx].temperature_k = @ - (burst_joules \div 500) * MicroDeg,
              !.last_burst_time = now]

\* Lines 278-290, with the default tec_power_w = 50.0.
peltier_cooling(s, dt) ==
  IF s.tec_on
  THEN [cs_remove_heat(s, 50 * dt) EXCEPT !.battery_wh = @ - 50 * dt]
  ELSE s

\* Lines 292-302, with the default fan_power_w = 5.0.
fan_cooling(s, dt) ==
  IF s.fan_on
  THEN [cs_remove_heat(s, 5 * dt) EXCEPT !.battery_wh = @ - 5 * dt]
  ELSE s

\* Lines 304-329: q in microjoules; the canister's heat capacity in J/K from
\* its amount of gas (millimoles) and mass (grams).
conduction_with_canister(s, dt) ==
  LET canister == get_current_canister(s)
      T_canister_c == canister.temperature_k - 27315 * (MicroDeg \div 100)
      dT == T_canister_c - s.temperature_c
      q == (((dT \div 100) * s.conduction_canister_k) \div 100) * dt
      canister_n_mol ==
        ((((canister.pressure_pa \div 100) * canister.volume_m3) \div 100) * 10^4)
          \div ((PHYSICAL_CONSTANTS.R_UNIVERSAL * (canister.temperature_k \div 10^4)) \div 10^4)
      canister_mass_kg == (canister_n_mol * PHYSICAL_CONSTANTS.M_CO2) \div 10^5
      canister_cp_jpk == (canister_mass_kg * PHYSICAL_CONSTANTS.CP_CO2) \div 1000
  IN  [s EXCEPT
         !.temperature_c = @ + q \div s.system_heat_capacity,
         !.canisters[s.current_canister_idx + 1].temperature_k =
             @ - q \div canister_cp_jpk]

\* Lines 331-340: q in microjoules.
conduction_with_environment(s, dt, env_temp_c, env_k) ==
  LET dT == env_temp_c - s.temperature_c
      q == ((((dT \div 1000) * env_k) \div 10)) * dt
  IN  [s EXCEPT !.temperature_c = @ + q \div s.system_heat_capacity]

\* update_state_machine, but going on from the state it has just entered.
update_state_machineCascading(s) ==
  LET up == IF s.state = "IDLE" /\ s.temperature_c > 40 * MicroDeg THEN "EMERGENCY"
            ELSE IF s.state = "IDLE" /\ s.temperature_c > 30 * MicroDeg THEN "ACTIVE"
            ELSE IF s.state = "ACTIVE" /\ s.temperature_c > 40 * MicroDeg THEN "EMERGENCY"
            ELSE IF s.state = "ACTIVE" /\ s.temperature_c < 25 * MicroDeg THEN "IDLE"
            ELSE IF s.state = "EMERGENCY" /\ s.temperature_c < 25 * MicroDeg THEN "IDLE"
            ELSE IF s.state = "EMERGENCY" /\ s.temperature_c < 35 * MicroDeg THEN "ACTIVE"
            ELSE s.state
  IN  [s EXCEPT !.tec_on = s.state # "IDLE", !.fan_on = s.state # "IDLE", !.state = up]

\* Lines 348-377: the flags follow the state the call finds, then the state
\* may change.
update_state_machine(s) ==
  CASE s.state = "IDLE" ->
         [s EXCEPT !.tec_on = FALSE, !.fan_on = FALSE,
                   !.state = IF s.temperature_c > 30 * MicroDeg THEN "ACTIVE" ELSE @]
    [] s.state = "ACTIVE" ->
         [s EXCEPT !.tec_on = TRUE, !.fan_on = TRUE,
                   !.state = IF s.temperature_c > 40 * MicroDeg THEN "EMERGENCY"
                             ELSE IF s.temperature_c < 25 * MicroDeg THEN "IDLE"
                             ELSE @]
    [] s.state = "EMERGENCY" ->
         [s EXCEPT !.tec_on = TRUE, !.fan_on = TRUE,
                   !.state = IF s.temperature_c < 35 * MicroDeg THEN "ACTIVE" ELSE @]
    [] OTHER -> s

\* Lines 379-410: CoolingSystem.step.
cs_step(s, t_s, dt, env) ==
  LET s1 == update_state_machine(s)
      s2 == conduction_with_environment(s1, dt, ambient_temp_func(env, t_s),
                                        env.thermal_conductivity)
      s3 == conduction_with_canister(s2, dt)
      s4 == fan_cooling(peltier_cooling(s3, dt), dt)
      s5 == IF s4.state = "EMERGENCY" THEN canister_cooling_burst(s4, dt)
            ELSE IF s4.state = "ACTIVE" /\ s4.temperature_c > 32 * MicroDeg
                 THEN canister_cooling_burst(s4, dt)
            ELSE s4
  IN  [s5 EXCEPT !.time_log_len = @ + 1,
                 !.time_log_last = t_s,
                 !.state_log_last = s5.state]

\* Lines 415-447: main() up to its loop.  system is the CoolingSystem, entry
\* the CoolingSystem as the latest call of step found it.
CsMain(initial_temp, sub_env_name, time_step) ==
  [ SIM_DURATION |-> 86400 * 7,
    TIME_STEP |-> time_step,
    sub_env |-> SubEnvironment(sub_env_name),
    system |-> CoolingSystem(initial_temp),
    entry |-> CoolingSystem(initial_temp),
    current_time_s |-> 0 ]

(***************************************************************************)
(* simulation/tactical-pi-cooling.py: trigger_co2 and the module's globals  *)
(* it works on.  Volumes are kept in 1/MilliLitre ml, valve durations in    *)
(* 1/100 s, so that a duration's number is also its CO2 usage at 1 ml/s.    *)
(***************************************************************************)
MilliLitre == 10^2

\* Lines 34-43: the module-level parameters trigger_co2 reads.
pi_config ==
  [ COOLING_CAPACITY_JOULES |-> 2900,
    THERMAL_MASS_J_PER_C |-> 300,
    COOLDOWN_PER_PURGE_C |-> (((2900 * 85) \div 100) * DegC) \div 300,
    CANISTER_VOLUME_ML |-> 16 * MilliLitre ]

\* Lines 43 and 92-98: the globals as the module leaves them.  pc, duration,
\* event_type and the rest describe the latest call of trigger_co2: requested
\* and remaining_before are the usage it computed first and REMAINING_CO2_ML
\* as it found it.
PiInit ==
  [ REMAINING_CO2_ML |-> pi_config.CANISTER_VOLUME_ML,
    co2_total_usage_ml |-> 0,
    pc |-> "none",
    duration |-> 0,
    event_type |-> "none",
    requested |-> 0,
    remaining_before |-> pi_config.CANISTER_VOLUME_ML,
    cooling_effect |-> 0,
    co2_usage |-> 0 ]

\* Lines 246-296: trigger_co2(duration, event_type).  With more asked than is
\* left, line 270 divides REMAINING_CO2_ML by the usage just set to it: 0.0 / 0.0
\* raises ZeroDivisionError when nothing is left, and is 1.0 otherwise.
trigger_co2(p, duration, event_type) ==
  LET requested == IF event_type = "PURGE" THEN duration * 2 ELSE duration \div 2
      short == requested > p.REMAINING_CO2_ML
      co2_usage == IF short THEN p.REMAINING_CO2_ML ELSE requested
      cooling_effect ==
        IF event_type = "PURGE"
        THEN (pi_config.COOLDOWN_PER_PURGE_C * co2_usage) \div (2 * MilliLitre)
        ELSE (pi_config.COOLDOWN_PER_PURGE_C * co2_usage) \div (8 * MilliLitre)
      called == [p EXCEPT !.duration = duration, !.event_type = event_type,
                          !.requested = requested,
                          !.remaining_before = p.REMAINING_CO2_ML]
  IN  IF short /\ co2_usage = 0
      THEN [called EXCEPT !.pc = "raised", !.cooling_effect = 0, !.co2_usage = 0]
      ELSE [called EXCEPT !.pc = "returned",
                          !.REMAINING_CO2_ML = @ - co2_usage,
                          !.co2_total_usage_ml = @ + co2_usage,
                          !.cooling_effect = cooling_effect,
                          !.co2_usage = co2_usage]

(***************************************************************************)
(* combined_gui.py: SimulationApp, its Run button and the threads it        *)
(* starts.  A script is known by what executing its code does: it finishes, *)
(* raises an Exception, exits (SystemExit, as sys.exit() raises), or is an  *)
(* empty file.  Tk calls a button's command only while its state is normal. *)
(***************************************************************************)
\* Lines 35-71: what load_scripts_from_directory may find in simulation/.
ScriptNames == {"empty.py", "exits.py", "finishes.py", "raises.py"}

\* Line 98: sorted(list(self.scripts.keys()))[0], for these names.
FirstScript(scripts) ==
  IF "empty.py" \in scripts THEN "empty.py"
  ELSE IF "exits.py" \in scripts THEN "exits.py"
  ELSE IF "finishes.py" \in scripts THEN "finishes.py"
  ELSE "raises.py"

\* Lines 92-120: SimulationApp.__init__.  threads are the threads started so
\* far, each with the script it runs, its place in run_simulation_in_background
\* and the text run_script has collected; clicks counts the calls of
\* start_simulation_thread.
SimulationApp(scripts) ==
  [ scripts |-> scripts,
    selected_script |-> IF scripts = {} THEN "No scripts found" ELSE FirstScript(scripts),
    run_button |-> [ state |-> IF scripts = {} THEN "disabled" ELSE "normal",
                     text |-> "Run Simulation" ],
    console |-> "status_message",
    threads |-> << >>,
    clicks |-> 0 ]

\* Lines 122-130: start_simulation_thread.  An unknown name or empty code
\* returns at once.
start_simulation_thread(g) ==
  LET script_to_run == g.selected_script
      clicked == [g EXCEPT !.clicks = @ + 1]
  IN  IF script_to_run \notin g.scripts \/ script_to_run = "empty.py"
      THEN clicked
      ELSE [clicked EXCEPT
              !.run_button = [state |-> "disabled", text |-> "Running..."],
              !.threads = Append(@, [script |-> script_to_run, pc |-> "delete",
                                     output |-> ""])]

\* Lines 73-86 and 132-134: the next step of thread i in
\* run_simulation_in_background: run_script's console_widget.delete, the exec
\* under try / except Exception, console_widget.insert, and the button's
\* config(state=tk.NORMAL).  SystemExit is no Exception: it leaves run_script
\* and run_simulation_in_background and ends the thread.
run_simulation_in_background(g, i) ==
  LET thread == g.threads[i]
  IN  CASE thread.pc = "delete" ->
             [g EXCEPT !.console = "", !.threads[i].pc = "exec"]
        [] thread.pc = "exec" /\ thread.script = "finishes.py" ->
             [g EXCEPT !.threads[i].pc = "insert", !.threads[i].output = "finished"]
        [] thread.pc = "exec" /\ thread.script = "raises.py" ->
             [g EXCEPT !.threads[i].pc = "insert", !.threads[i].output = "ERROR"]
        [] thread.pc = "exec" /\ thread.script = "exits.py" ->
             [g EXCEPT !.threads[i].pc = "died"]
        [] thread.pc = "insert" ->
             [g EXCEPT !.console = thread.output, !.threads[i].pc = "enable"]
        [] thread.pc = "enable" ->
             [g EXCEPT !.run_button = [state |-> "normal", text |-> "Run Simulation"],
                       !.threads[i].pc = "returned"]
        [] OTHER -> g

(***************************************************************************)
(* The runs explored.                                                      *)
(***************************************************************************)
MaxTimeStep5 == 6000
MaxTimeStep20 == 7500
MaxTimeStep600 == 730000
Y2MaxSteps == 1400
ProMaxSteps == 3850

Runs ==
  { <<TOTAL_TIME_S, TIME_STEP_S>>, <<MaxTimeStep5, TIME_STEP_S>>,
    <<MaxTimeStep20, 20>>, <<MaxTimeStep600, 600>>,
    <<TOTAL_TIME_S, 0>>, <<TOTAL_TIME_S, 0 - TIME_STEP_S>>,
    <<0 - 12 * TIME_STEP_S, 0 - TIME_STEP_S>> }

\* The arguments the pure functions are called with: duty cycles in whole
\* percent, purge timers in whole seconds, temperatures in whole degrees.
MaxDutyCycle == 102
MaxPurgeTimer == 185
MaxCpuTemp == 90
MaxHotSideTemp == 165

\* The first iterations of yearsim3's loop that are explored, and the values
\* np.random.uniform(-0.05, 0.05) is taken to return (in 1/Unit).
Y3MaxSteps == 4

Y3NoiseDraws == {0 - (5 * Unit) \div 100, 0, (4 * Unit) \div 100}

NoCall == [pc |-> "none"]

\* The clicks on the Run button that are explored in a session of
\* combined_gui.py.
MaxGuiClicks == 3

\* The calls of trigger_co2 that manage_co2_cooling makes: the purge of 1.5 s
\* and the hisses of calculate_co2_hiss_parameters (durations in 1/100 s).
TriggerCo2Calls ==
  { <<150, "PURGE">>, <<30, "HISS">>, <<50, "HISS">>, <<70, "HISS">>, <<100, "HISS">> }

\* The calls of step that are explored in a run of tactical_cooling_sim's
\* main(), and the runs: main()'s own (35 degrees, Mars' crater base, 1 s) and
\* others by initial temperature, sub-environment and time step.
CsMaxSteps == 300

CsRuns ==
  { <<initial_temp * MicroDeg, sub_env_name, time_step>> :
      initial_temp \in {20, 35, 42, 45},
      sub_env_name \in {"Crater Base", "Urban", "Surface"},
      time_step \in {1, 600} }

FanMultiplierCalls ==
  { [pc |-> "call", result |-> 0,
     args |-> [duty_cycle |-> d, is_post_purge |-> p, purge_timer |-> pt]] :
    d \in (0 - 2)..MaxDutyCycle, p \in BOOLEAN, pt \in (0 - 5)..MaxPurgeTimer }

\* prev is the call made before this one (none yet: valid is FALSE).
PeltierEfficiencyCalls ==
  { [pc |-> "call", result |-> 0,
     args |-> [cpu_temp |-> c * DegC, hot_side_temp |-> h * DegC],
     prev |-> [valid |-> FALSE, hot_side_temp |-> 0, result |-> 0]] :
    c \in 20..MaxCpuTemp, h \in 20..MaxHotSideTemp }

\* Windows of 120 s of run_simulation's loop at the default time step, the
\* temperature held at one value per band (<60, 60-70, 70-75, >=75): the
\* window begins at iteration t0, t iterations are done, bursts[i] counts
\* the hiss bursts fired so far at temps[i].
MaxWindowStart == 23

WindowSteps == 120 \div TIME_STEP_S

HeldTemperatures ==
  { <<a * DegC, b * DegC, c * DegC, d * DegC>> :
    a \in {INITIAL_TEMP_C \div DegC, 59}, b \in {60, 69}, c \in {70, 74}, d \in {75, 85} }

HissWindows ==
  { [pc |-> "window", t0 |-> t0, t |-> 0, temps |-> temps, bursts |-> <<0, 0, 0, 0>>] :
    t0 \in 0..MaxWindowStart, temps \in HeldTemperatures }

\* Lines 103-128 at iteration t with the temperature temperature_c and full
\* canisters: whether the step spends a hiss burst.
BurstFires(t, temperature_c) ==
  LET frame == [SimInit(TOTAL_TIME_S, TIME_STEP_S) EXCEPT
                  !.t = t, !.temperature_c = temperature_c]
  IN  StepHiss(StepClock(frame)).hiss_energy > 0

\* Either run_simulation is called with one of the runs' arguments, or the
\* year-long script is executed.
Init ==
  /\ \/ /\ prog = "laptop_sim"
        /\ \E run \in Runs : sim = SimInit(run[1], run[2])
        /\ call = NoCall
     \/ /\ prog = "yearsim2"
        /\ sim = SimInit(TOTAL_TIME_S, TIME_STEP_S)
        /\ call = NoCall
     \/ /\ prog = "calculate_fan_multiplier"
        /\ sim = SimInit(TOTAL_TIME_S, TIME_STEP_S)
        /\ call \in FanMultiplierCalls
     \/ /\ prog = "calculate_peltier_efficiency"
        /\ sim = SimInit(TOTAL_TIME_S, TIME_STEP_S)
        /\ call \in PeltierEfficiencyCalls
     \/ /\ prog = "yearsim3"
        /\ sim = SimInit(TOTAL_TIME_S, TIME_STEP_S)
        /\ call = NoCall
     \/ /\ prog = "hiss_window"
        /\ sim = SimInit(TOTAL_TIME_S, TIME_STEP_S)
        /\ call \in HissWindows
     \/ /\ prog = "yearsim4o1_pro"
        /\ sim = SimInit(TOTAL_TIME_S, TIME_STEP_S)
        /\ call = NoCall
     \/ /\ prog = "tactical_cooling_sim"
        /\ sim = SimInit(TOTAL_TIME_S, TIME_STEP_S)
        /\ call = NoCall
     \/ /\ prog = "tactical_pi_cooling"
        /\ sim = SimInit(TOTAL_TIME_S, TIME_STEP_S)
        /\ call = NoCall
     \/ /\ prog = "combined_gui"
        /\ sim = SimInit(TOTAL_TIME_S, TIME_STEP_S)
        /\ call = NoCall
  /\ entry = sim
  /\ y2 = Y2Init
  /\ y3 = <<Y3Init, Y3Init>>
  /\ pro = ProInit
  /\ IF prog = "tactical_cooling_sim"
     THEN \E run \in CsRuns : cs = CsMain(run[1], run[2], run[3])
     ELSE cs = CsMain(35 * MicroDeg, "Crater Base", 1)
  /\ pi = PiInit
  /\ IF prog = "combined_gui"
     THEN \E scripts \in SUBSET ScriptNames : gui = SimulationApp(scripts)
     ELSE gui = SimulationApp({})

\* Lines 102-231: for t in range(n_steps).
Step ==
  /\ prog = "laptop_sim"
  /\ sim.pc = "loop"
  /\ sim.t < sim.n_steps
  /\ entry' = sim
  /\ sim' = [LoopBody(sim) EXCEPT !.t = @ + 1]
  /\ UNCHANGED <<prog, y2, call, y3, pro, cs, pi, gui>>

\* Lines 233-260: the summary (15 events) and the return, once range(n_steps)
\* is exhausted.
Finish ==
  /\ prog = "laptop_sim"
  /\ sim.pc = "loop"
  /\ ~(sim.t < sim.n_steps)
  /\ sim.temperature_log.len > 0
  /\ sim' = [sim EXCEPT !.pc = "done", !.events_len = @ + 15, !.step_events = << >>]
  /\ UNCHANGED <<prog, entry, y2, call, y3, pro, cs, pi, gui>>

\* Lines 233-236: with no timestep executed (n_steps <= 0) the summary's
\* max(temperature_log) raises ValueError after three events were appended.
Raise ==
  /\ prog = "laptop_sim"
  /\ sim.pc = "loop"
  /\ ~(sim.t < sim.n_steps)
  /\ sim.temperature_log.len = 0
  /\ sim' = [sim EXCEPT !.pc = "error", !.events_len = @ + 3, !.step_events = << >>]
  /\ UNCHANGED <<prog, entry, y2, call, y3, pro, cs, pi, gui>>

\* Lines 213-396 of laptopcoolingsim1yearsim2.py: for t in range(n_steps),
\* explored for the first Y2MaxSteps iterations.
Y2Step ==
  /\ prog = "yearsim2"
  /\ y2.pc = "loop"
  /\ y2.t < y2.n_steps
  /\ y2.t < Y2MaxSteps
  /\ y2' = Y2LoopBody(y2)
  /\ UNCHANGED <<prog, sim, entry, call, y3, pro, cs, pi, gui>>

\* laptop_sim.py lines 61-71: one call of calculate_fan_multiplier.
CallFanMultiplier ==
  /\ prog = "calculate_fan_multiplier"
  /\ call.pc = "call"
  /\ call' = [call EXCEPT
       !.pc = "return",
       !.result = calculate_fan_multiplier(
                    call.args.duty_cycle, call.args.is_post_purge, call.args.purge_timer)]
  /\ UNCHANGED <<prog, sim, entry, y2, y3, pro, cs, pi, gui>>

\* laptop_sim.py lines 50-58: one call of calculate_peltier_efficiency.
CallPeltierEfficiency ==
  /\ prog = "calculate_peltier_efficiency"
  /\ call.pc = "call"
  /\ call' = [call EXCEPT
       !.pc = "return",
       !.result = calculate_peltier_efficiency(call.args.cpu_temp, call.args.hot_side_temp)]
  /\ UNCHANGED <<prog, sim, entry, y2, y3, pro, cs, pi, gui>>

\* A further call for the same cpu_temp with a warmer hot side, as in
\* test_peltier_efficiency_decreases_with_temp_diff; the call before it is
\* remembered in prev.
CallPeltierWarmer ==
  /\ prog = "calculate_peltier_efficiency"
  /\ call.pc = "return"
  /\ \E warmer \in {1, 10} :
       LET hot_side_temp == call.args.hot_side_temp + warmer * DegC
       IN  /\ hot_side_temp <= MaxHotSideTemp * DegC
           /\ call' = [call EXCEPT
                !.args.hot_side_temp = hot_side_temp,
                !.prev = [valid |-> TRUE, hot_side_temp |-> call.args.hot_side_temp,
                          result |-> call.result],
                !.result = calculate_peltier_efficiency(call.args.cpu_temp, hot_side_temp)]
  /\ UNCHANGED <<prog, sim, entry, y2, y3, pro, cs, pi, gui>>

\* Lines 228-401 of laptopcoolingsim1yearsim3.py: for t in range(n_steps), in
\* both executions at once, each drawing its own noise; explored for the
\* first Y3MaxSteps iterations.
Y3Step ==
  /\ prog = "yearsim3"
  /\ \A i \in 1..2 : y3[i].pc = "loop" /\ y3[i].t < y3[i].n_steps /\ y3[i].t < Y3MaxSteps
  /\ \E noise1 \in Y3NoiseDraws, noise2 \in Y3NoiseDraws :
       y3' = <<Y3LoopBody(y3[1], noise1), Y3LoopBody(y3[2], noise2)>>
  /\ UNCHANGED <<prog, sim, entry, y2, call, pro, cs, pi, gui>>

\* Lines 102-128 of laptop_sim.py: the next iteration of the window, at each
\* of the four held temperatures.
HissWindowStep ==
  /\ prog = "hiss_window"
  /\ call.pc = "window"
  /\ call.t < WindowSteps
  /\ call' = [call EXCEPT
       !.t = @ + 1,
       !.bursts = [i \in 1..4 |->
                    @[i] + IF BurstFires(call.t0 + call.t, call.temps[i]) THEN 1 ELSE 0],
       !.pc = IF call.t + 1 = WindowSteps THEN "return" ELSE "window"]
  /\ UNCHANGED <<prog, sim, entry, y2, y3, pro, cs, pi, gui>>

\* Lines 223-408 of laptopcoolingsim1yearsim4o1-pro.py: for t in
\* range(n_steps), explored for the first ProMaxSteps iterations.
ProStep ==
  /\ prog = "yearsim4o1_pro"
  /\ pro.pc = "loop"
  /\ pro.t < pro.n_steps
  /\ pro.t < ProMaxSteps
  /\ pro' = ProLoopBody(pro)
  /\ UNCHANGED <<prog, sim, entry, y2, call, y3, cs, pi, gui>>

\* Lines 448-451 of tactical_cooling_sim.py: one iteration of main()'s loop,
\* while current_time_s <= SIM_DURATION.
CsStep ==
  /\ prog = "tactical_cooling_sim"
  /\ cs.current_time_s <= cs.SIM_DURATION
  /\ cs.system.time_log_len < CsMaxSteps
  /\ cs' = [cs EXCEPT
              !.entry = cs.system,
              !.system = cs_step(cs.system, cs.current_time_s, cs.TIME_STEP, cs.sub_env),
              !.current_time_s = @ + cs.TIME_STEP]
  /\ UNCHANGED <<prog, sim, entry, y2, call, y3, pro, pi, gui>>

\* Lines 357 and 372 of tactical-pi-cooling.py: a call of trigger_co2 by
\* manage_co2_cooling; an exception ends the test (line 649).
TriggerCo2 ==
  /\ prog = "tactical_pi_cooling"
  /\ pi.pc # "raised"
  /\ \E c \in TriggerCo2Calls : pi' = trigger_co2(pi, c[1], c[2])
  /\ UNCHANGED <<prog, sim, entry, y2, call, y3, pro, cs, gui>>

\* Line 108 of combined_gui.py: the user picks a script in the OptionMenu.
SelectScript ==
  /\ prog = "combined_gui"
  /\ \E name \in gui.scripts :
       /\ name # gui.selected_script
       /\ gui' = [gui EXCEPT !.selected_script = name]
  /\ UNCHANGED <<prog, sim, entry, y2, call, y3, pro, cs, pi>>

\* Lines 104 and 122-130: the user clicks the Run button, which calls
\* start_simulation_thread in the main thread.
ClickRun ==
  /\ prog = "combined_gui"
  /\ gui.run_button.state = "normal"
  /\ gui.clicks < MaxGuiClicks
  /\ gui' = start_simulation_thread(gui)
  /\ UNCHANGED <<prog, sim, entry, y2, call, y3, pro, cs, pi>>

\* Lines 132-134: a started thread that has not ended takes its next step.
ThreadStep ==
  /\ prog = "combined_gui"
  /\ \E i \in DOMAIN gui.threads :
       /\ gui.threads[i].pc \notin {"returned", "died"}
       /\ gui' = run_simulation_in_background(gui, i)
  /\ UNCHANGED <<prog, sim, entry, y2, call, y3, pro, cs, pi>>

Next ==
  \/ Step \/ Finish \/ Raise \/ Y2Step \/ Y3Step
  \/ CallFanMultiplier \/ CallPeltierEfficiency \/ CallPeltierWarmer
  \/ HissWindowStep \/ ProStep \/ CsStep \/ TriggerCo2
  \/ SelectScript \/ ClickRun \/ ThreadStep

Spec == Init /\ [][Next]_vars

\* A session of combined_gui.py alone.  A started thread is scheduled until it
\* ends (threading.Thread.start, line 130); nothing makes the user click.
GuiInit == Init /\ prog = "combined_gui"

GuiNext == SelectScript \/ ClickRun \/ ThreadStep

GuiSpec == GuiInit /\ [][GuiNext]_vars /\ WF_vars(ThreadStep)

(***************************************************************************)
(* Properties.  entry is sim as it stood when the latest iteration of      *)
(* run_simulation's loop began; Stepped says that one has run.             *)
(***************************************************************************)
Stepped == prog = "laptop_sim" /\ sim.t > 0

Active(s) == s.canisters[s.current_canister]

InStepEvents(s, kind) == \E i \in 1..Len(s.step_events) : s.step_events[i] = kind

\* C1: at the end of every timestep of run_simulation the Peltier hot side
\* is at least as warm as the device: hot_side_temp_c >= temperature_c.
C1_HotSideFloor == Stepped => sim.hot_side_temp_c >= sim.temperature_c

\* C2: in run_simulation the energy left in the two canisters plus the energy
\* accounted as spent on hisses and purges equals the initial total capacity.
C2_CanisterConservation ==
  prog = "laptop_sim" =>
    sim.canisters[0] + sim.canisters[1]
      + sim.cooling_contribution.co2_hiss + sim.cooling_contribution.co2_purge
    = 2 * COOLING_CAPACITY_JOULES

\* C3: a step whose active canister holds less than COOLING_EFFECTIVE_JOULES
\* at purge evaluation executes no purge: no purge temperature drop, no change
\* of purge_count or last_purge_time, no purge debit and no purge energy booked.
C3_NoPurgeWhenUnderfunded ==
  (Stepped /\ Active(entry) < COOLING_EFFECTIVE_JOULES) =>
    /\ sim.purge_count = entry.purge_count
    /\ sim.last_purge_time = entry.last_purge_time
    /\ sim.temperature_c = entry.temperature_c + sim.delta_temp
    /\ sim.canisters[entry.current_canister]
         >= entry.canisters[entry.current_canister] - sim.hiss_energy
    /\ sim.cooling_contribution.co2_purge = entry.cooling_contribution.co2_purge
    /\ ~InStepEvents(sim, "EMERGENCY PURGE")

\* C3 witness: a step ran with the purge trigger raised and the active
\* canister unable to pay.
C3_Witness ==
  /\ Stepped
  /\ PurgeTrigger(entry)
  /\ Active(entry) < COOLING_EFFECTIVE_JOULES
  /\ Active(entry) > 0

\* C4: a purge executes only in a step entered above the critical temperature
\* (90), or above the emergency temperature (78) with the active canister
\* below 10% of capacity.
C4_PurgeOnlyWhenCritical ==
  (Stepped /\ sim.purge_count > entry.purge_count) =>
    \/ entry.temperature_c > CRITICAL_TEMP_C
    \/ /\ entry.temperature_c > EMERGENCY_TEMP_C
       /\ Active(entry) < COOLING_CAPACITY_JOULES \div 10

\* C5: a step entered above the critical temperature with the active canister
\* full makes exactly one purge: purge_count + 1, a temperature drop of
\* COOLDOWN_PER_PURGE_C x fan_multiplier on top of the step's integration,
\* and 2900 - 2465 = 435 J left in the active canister.
C5_PurgeFromFullCanister ==
  (Stepped /\ entry.temperature_c > CRITICAL_TEMP_C
           /\ Active(entry) = COOLING_CAPACITY_JOULES) =>
    /\ sim.purge_count = entry.purge_count + 1
    /\ sim.last_purge_time = sim.seconds
    /\ sim.temperature_c =
         entry.temperature_c - Scale(COOLDOWN_PER_PURGE_C, sim.fan_multiplier)
           + sim.delta_temp
    /\ sim.current_canister = entry.current_canister
    /\ Active(sim) = 435 * Joule

\* C5 witness: such a step has run, with the fan boosting the drop.
C5_Witness ==
  /\ Stepped
  /\ entry.temperature_c > CRITICAL_TEMP_C
  /\ Active(entry) = COOLING_CAPACITY_JOULES
  /\ sim.fan_multiplier > Unit
  /\ sim.purge_count = entry.purge_count + 1

\* C6: a step entered with canister 0 active and below 50 J while canister 1
\* holds more than 50 J switches to canister 1, counts one swap, refills
\* nothing and leaves canister 0's energy as it was.
C6_SwapNotRefill ==
  (Stepped /\ entry.current_canister = 0
           /\ entry.canisters[0] < 50 * Joule /\ entry.canisters[1] > 50 * Joule) =>
    /\ sim.current_canister = 1
    /\ sim.canister_swaps = entry.canister_swaps + 1
    /\ sim.canisters[0] = entry.canisters[0]
    /\ sim.canisters[1] <= entry.canisters[1]

\* C6 witness: such a swap step has run, in a step that also fired a hiss.
C6_Witness ==
  /\ Stepped
  /\ entry.current_canister = 0
  /\ entry.canisters[0] < 50 * Joule /\ entry.canisters[1] > 50 * Joule
  /\ sim.hiss_energy > 0
  /\ InStepEvents(sim, "CANISTER SWAP")

\* C7: with both canisters below 50 J a step swaps nothing: current_canister
\* and canister_swaps stay as they were, and the step completes.
C7_NoSwapWhenBothDepleted ==
  (Stepped /\ entry.canisters[0] < 50 * Joule /\ entry.canisters[1] < 50 * Joule) =>
    /\ sim.current_canister = entry.current_canister
    /\ sim.canister_swaps = entry.canister_swaps
    /\ sim.t = entry.t + 1
    /\ ~InStepEvents(sim, "CANISTER SWAP")

\* C7 witness: a step has run with both canisters below 50 J.
C7_Witness ==
  /\ Stepped
  /\ entry.canisters[0] < 50 * Joule /\ entry.canisters[1] < 50 * Joule
  /\ sim.t = entry.t + 1

\* C8: once battery_remaining_wh is at or below 0 at the end of a step, no
\* further timestep is executed.
C8_HaltOnDepletedBattery ==
  ~(Stepped /\ entry.t > 0 /\ entry.battery_remaining_wh <= 0 /\ sim.t > entry.t)

\* C9: fan_duty_cycle is within [0, 100] after the ramp of every step.
C9_DutyCycleBounds ==
  prog = "laptop_sim" => 0 <= sim.fan_duty_cycle /\ sim.fan_duty_cycle <= 100

\* C9 witness: the ramp has brought the duty cycle back up to its largest
\* target from a value a whole step of +10 would carry past 100.
C9_Witness ==
  /\ Stepped
  /\ entry.fan_duty_cycle > 90 /\ entry.fan_duty_cycle < 100
  /\ sim.target_duty = 100
  /\ sim.fan_duty_cycle = 100

\* C10: every canister holds between 0 and the canister capacity, in
\* run_simulation and in the refilling loop of laptopcoolingsim1yearsim2.py.
C10_CanisterBounds ==
  \A i \in 0..1 :
    /\ 0 <= sim.canisters[i] /\ sim.canisters[i] <= COOLING_CAPACITY_JOULES
    /\ 0 <= y2.canisters[i] /\ y2.canisters[i] <= y2_cooling_capacity_joules

\* C10 witness: the refilling loop has purged, swapped and just refilled, and
\* the refilled canister has paid the step's hiss.
C10_Witness ==
  /\ prog = "yearsim2"
  /\ y2.purge_count > 0
  /\ y2.canister_swaps > 1
  /\ InStepEvents(y2, "CANISTER REFILL")
  /\ y2.canisters[0] = y2_cooling_capacity_joules - y2.hiss_energy
  /\ y2.hiss_energy > 0

\* C17: in a step of run_simulation that makes no purge the temperature moves
\* by (heat_input - total_cooling) x time_step_s / THERMAL_MASS_J_PER_C, where
\* total_cooling is the sum of the passive, conduction, hiss and Peltier
\* contributions, each scaled by the step's one fan multiplier; 15 W against
\* no cooling over a 5 s step is +0.25 degrees.
C17_EulerIntegration ==
  /\ (Stepped /\ sim.purge_count = entry.purge_count) =>
       /\ sim.fan_multiplier =
            calculate_fan_multiplier(sim.fan_duty_cycle, sim.is_post_purge,
                                     sim.post_purge_timer)
       /\ sim.total_cooling =
            Scale(sim.passive_cooling, sim.fan_multiplier)
              + Scale(sim.conduction_cooling, sim.fan_multiplier)
              + Scale(sim.hiss_cooling, sim.fan_multiplier)
              + Scale(sim.peltier_cooling, sim.fan_multiplier)
       /\ sim.temperature_c =
            entry.temperature_c
              + TempChange(sim.current_cpu_power - sim.total_cooling, sim.time_step_s)
  /\ TempChange(15 * Watt, TIME_STEP_S) = DegC \div 4

\* C17 witness: a step without a purge has run with the fan boosting a hiss
\* and an active Peltier.
C17_Witness ==
  /\ Stepped
  /\ sim.purge_count = entry.purge_count
  /\ sim.fan_multiplier > Unit
  /\ sim.hiss_cooling > 0
  /\ sim.peltier_cooling > 0
  /\ sim.temperature_c # entry.temperature_c

\* C18: a step in which the purge trigger holds while the active canister
\* lacks COOLING_EFFECTIVE_JOULES appends an event that records the skipped
\* purge (an event that is neither a purge, a swap nor a status line).
C18_SkippedPurgeLogged ==
  (Stepped /\ PurgeTrigger(entry) /\ Active(entry) < COOLING_EFFECTIVE_JOULES) =>
    \E i \in 1..Len(sim.step_events) :
      sim.step_events[i] \notin {"EMERGENCY PURGE", "CANISTER SWAP", "STATUS"}

\* C19: run_simulation called with time_step_s <= 0 fails with an error and
\* executes no timestep: it never gets past t = 0 and never returns.
C19_NonPositiveStepFails ==
  (prog = "laptop_sim" /\ sim.time_step_s <= 0) =>
    /\ sim.t = 0
    /\ sim.temperature_log.len = 0
    /\ sim.pc # "done"

\* C20: two runs from the same configuration go through the same sequence of
\* temperatures, purge counts and swap counts: the two executions of
\* laptopcoolingsim1yearsim3.py agree after every iteration.  (run_simulation
\* has one successor in every state: Step is a function of sim.)
C20_RunsAgree ==
  prog = "yearsim3" =>
    /\ y3[1].temperature_log = y3[2].temperature_log
    /\ y3[1].temperature_c = y3[2].temperature_c
    /\ y3[1].purge_count = y3[2].purge_count
    /\ y3[1].canister_swaps = y3[2].canister_swaps

\* The step's clock lies in the 60 s bonus window after the latest purge
\* (the purge known when the step began).
InBonusWindow ==
  /\ 0 < sim.seconds - entry.last_purge_time
  /\ sim.seconds - entry.last_purge_time < 60

\* One of the four deactivation conditions holds at the step's decision.
\* Nothing before the decision changes these four values in the step.
DeactivationHolds ==
  \/ entry.temperature_c < 65 * DegC
  \/ entry.battery_remaining_wh < 3 * WattHour
  \/ entry.hot_side_temp_c > 95 * DegC
  \/ entry.peltier_runtime_s >= PELTIER_MAX_RUNTIME

\* C21: the Peltier goes from inactive to active in a step only if, at the
\* decision, the temperature is above 70 or the step is in the 60 s
\* post-purge bonus window, and the battery is above 5 Wh, the runtime below
\* PELTIER_MAX_RUNTIME and the hot side below 90.
C21_ActivationGuarded ==
  (Stepped /\ ~entry.peltier_active /\ sim.peltier_active) =>
    /\ (entry.temperature_c > 70 * DegC \/ InBonusWindow)
    /\ entry.battery_remaining_wh > 5 * WattHour
    /\ entry.peltier_runtime_s < PELTIER_MAX_RUNTIME
    /\ entry.hot_side_temp_c < 90 * DegC

\* C22: in a step where a deactivation condition holds at the decision the
\* Peltier is inactive: it delivers no cooling and the battery loses nothing
\* but the fan's draw.
C22_DeactivationOverrides ==
  (Stepped /\ DeactivationHolds) =>
    /\ ~sim.peltier_active
    /\ sim.peltier_cooling = 0
    /\ sim.battery_remaining_wh >=
         entry.battery_remaining_wh - BatteryDraw(FAN_POWER_DRAW, sim.time_step_s)

\* C30: in a step outside the bonus window with 65 <= temperature <= 70,
\* battery >= 3 Wh, hot side <= 95 and runtime below PELTIER_MAX_RUNTIME the
\* decision leaves peltier_active as it was.
C30_HysteresisHolds ==
  ( /\ Stepped
    /\ ~InBonusWindow
    /\ entry.temperature_c >= 65 * DegC
    /\ entry.temperature_c <= 70 * DegC
    /\ entry.battery_remaining_wh >= 3 * WattHour
    /\ entry.hot_side_temp_c <= 95 * DegC
    /\ entry.peltier_runtime_s < PELTIER_MAX_RUNTIME ) =>
    sim.peltier_active = entry.peltier_active

\* C30 witness: a running Peltier has stayed on through a step in the gap,
\* below the activation threshold.
C30_Witness ==
  /\ Stepped
  /\ ~InBonusWindow
  /\ entry.temperature_c >= 65 * DegC
  /\ entry.temperature_c < 70 * DegC
  /\ entry.battery_remaining_wh >= 3 * WattHour
  /\ entry.hot_side_temp_c <= 95 * DegC
  /\ entry.peltier_runtime_s < PELTIER_MAX_RUNTIME
  /\ entry.peltier_active
  /\ sim.peltier_active
  /\ sim.peltier_cooling > 0

\* C23: last_purge_time is the clock of the latest purge; with T the latest
\* purge before a step at clock s, is_post_purge and the CONDUCTION_WATTS
\* conduction are on when s - T <= CONDUCTION_DURATION and off when
\* s - T > CONDUCTION_DURATION; before the first purge, t = 0 included, they
\* are off.
C23_PostPurgeWindow ==
  Stepped =>
    /\ IF sim.purge_count > entry.purge_count
       THEN sim.last_purge_time = sim.seconds
       ELSE sim.last_purge_time = entry.last_purge_time
    /\ IF entry.purge_count = 0
       THEN ~sim.is_post_purge /\ sim.conduction_cooling = 0
       ELSE IF sim.seconds - entry.last_purge_time <= CONDUCTION_DURATION
            THEN sim.is_post_purge /\ sim.conduction_cooling = CONDUCTION_WATTS
            ELSE ~sim.is_post_purge /\ sim.conduction_cooling = 0

\* C23 witness: a step exactly CONDUCTION_DURATION seconds after the latest
\* purge has run with the window still open.
C23_Witness ==
  /\ Stepped
  /\ entry.purge_count > 0
  /\ sim.seconds - entry.last_purge_time = CONDUCTION_DURATION
  /\ sim.is_post_purge
  /\ sim.conduction_cooling = CONDUCTION_WATTS

\* C24: the step's fan mode and target duty are those of the first rule that
\* matches: below 50 and not post-purge PASSIVE 0; below 65 SLOW_HISS, 30 on
\* a multiple of 15 s and else 0; post-purge PURGE 80; above 75 EMERGENCY
\* 100; otherwise NORMAL 50.  A post-purge step above 75 targets 80.
C24_FanRuleOrder ==
  Stepped =>
    LET temp == entry.temperature_c
        post == sim.is_post_purge
        rule1 == temp < 50 * DegC /\ ~post
        rule2 == ~rule1 /\ temp < 65 * DegC
        rule3 == ~rule1 /\ ~rule2 /\ post
        rule4 == ~rule1 /\ ~rule2 /\ ~rule3 /\ temp > 75 * DegC
        rule5 == ~rule1 /\ ~rule2 /\ ~rule3 /\ ~rule4
    IN  /\ rule1 => sim.fan_mode = "PASSIVE" /\ sim.target_duty = 0
        /\ rule2 => /\ sim.fan_mode = "SLOW_HISS"
                    /\ sim.seconds % 15 = 0 => sim.target_duty = 30
                    /\ sim.seconds % 15 # 0 => sim.target_duty = 0
        /\ rule3 => sim.fan_mode = "PURGE" /\ sim.target_duty = 80
        /\ rule4 => sim.fan_mode = "EMERGENCY" /\ sim.target_duty = 100
        /\ rule5 => sim.fan_mode = "NORMAL" /\ sim.target_duty = 50
        /\ (post /\ temp > 75 * DegC) => sim.target_duty = 80

\* C24 witness: a post-purge step that began above 75 degrees has targeted
\* 80, in PURGE mode.
C24_Witness ==
  /\ Stepped
  /\ sim.is_post_purge
  /\ entry.temperature_c > 75 * DegC
  /\ sim.fan_mode = "PURGE"
  /\ sim.target_duty = 80

\* C28: in each step fan_duty_cycle moves toward the step's target, by at
\* most 10 points rising and at most 5 points falling, never past the target,
\* and stays unchanged when it equals the target.
C28_RampTowardTarget ==
  Stepped =>
    LET before == entry.fan_duty_cycle
        after == sim.fan_duty_cycle
        target == sim.target_duty
    IN  /\ target > before =>
              before < after /\ after <= target /\ after - before <= 10
        /\ target < before =>
              target <= after /\ after < before /\ before - after <= 5
        /\ target = before => after = before

\* C28 witness: the duty cycle has fallen by a whole step of 5 toward a
\* target further away.
C28_Witness ==
  /\ Stepped
  /\ sim.target_duty < entry.fan_duty_cycle - 5
  /\ sim.fan_duty_cycle = entry.fan_duty_cycle - 5

\* C29: the fan multiplier applied to the cooling contributions and to the
\* purge drop of a step never exceeds FAN_EFFICIENCY_MULTIPLIER_MAX.
C29_MultiplierCapped ==
  Stepped => sim.fan_multiplier <= FAN_EFFICIENCY_MULTIPLIER_MAX

\* C26: at the default 5 s step with a non-empty active canister, over any
\* window of 120 s with the temperature held in one band, a hotter band fires
\* at least as many hiss bursts as a colder one.
C26_HotterBurstsMore ==
  (prog = "hiss_window" /\ call.pc = "return") =>
    \A i \in 1..3 : call.bursts[i] <= call.bursts[i + 1]

\* C25: in laptopcoolingsim1yearsim4o1-pro.py, when the swap / refill block of
\* an iteration finds the active canister below 50 J and the other one not
\* above 50 J, it leaves both canisters at cooling_capacity_joules with
\* canister 0 active: at the end of the iteration canister 1 is full,
\* canister 0 is full but for the iteration's hiss, and the active canister
\* holds at least the threshold.
C25_RefillRestores ==
  ( /\ prog = "yearsim4o1_pro"
    /\ pro.t > 0
    /\ pro.at_swap.canisters[pro.at_swap.current_canister] < 50 * Joule
    /\ pro.at_swap.canisters[1 - pro.at_swap.current_canister] <= 50 * Joule ) =>
    /\ pro.current_canister = 0
    /\ pro.canisters[1] = pro_config.cooling_capacity_joules
    /\ pro.canisters[0] = pro_config.cooling_capacity_joules - pro.hiss_energy
    /\ pro.canisters[pro.current_canister] >= 50 * Joule

\* C27: in the loop of laptopcoolingsim1yearsim2.py, from one iteration to
\* the next within the post-purge window of the same purge and at the same
\* non-zero duty cycle, the fan multiplier (base_mult and speed_factor being
\* equal, its post-purge boost factor) does not grow.
C27_BoostDecays ==
  [][ ( /\ prog = "yearsim2"
        /\ y2.t > 0
        /\ y2.is_post_purge
        /\ y2.last_purge_time = y2.seconds - y2.time_since_last_purge
        /\ y2'.is_post_purge
        /\ y2.fan_duty_cycle > 0
        /\ y2'.fan_duty_cycle = y2.fan_duty_cycle ) =>
      y2'.fan_multiplier <= y2.fan_multiplier ]_vars

\* C31: peltier_runtime_s is never negative, grows by time_step_s in each
\* step in which the Peltier is active, and is 0 at the end of a step in
\* which the Peltier goes from active to inactive.
C31_RuntimeAccounting ==
  prog = "laptop_sim" =>
    /\ sim.peltier_runtime_s >= 0
    /\ (Stepped /\ sim.peltier_active) =>
          sim.peltier_runtime_s = entry.peltier_runtime_s + sim.time_step_s
    /\ (Stepped /\ entry.peltier_active /\ ~sim.peltier_active) =>
          sim.peltier_runtime_s = 0

\* C31 witness: a Peltier that had been running has been switched off in the
\* step, and its runtime is back at 0.
C31_Witness ==
  /\ Stepped
  /\ entry.peltier_active
  /\ entry.peltier_runtime_s > 0
  /\ ~sim.peltier_active
  /\ sim.peltier_runtime_s = 0

\* C32: purge_count never exceeds 2, and a purge is never executed in a step
\* whose active canister is below 10% of capacity: every executed purge is
\* one of the unconditional branch (temperature above 85).
C32_OnePurgePerCanister ==
  prog = "laptop_sim" =>
    /\ sim.purge_count <= 2
    /\ (Stepped /\ sim.purge_count > entry.purge_count) =>
          /\ sim.purge_count = entry.purge_count + 1
          /\ ~(Active(entry) < COOLING_CAPACITY_JOULES \div 10)
          /\ entry.temperature_c > 85 * DegC

\* C32 witness: both canisters have funded a purge, and a later step has met
\* the preemptive condition (above the emergency threshold, active canister
\* below 10%) without purging.
C32_Witness ==
  /\ Stepped
  /\ entry.purge_count = 2
  /\ entry.temperature_c > EMERGENCY_TEMP_C
  /\ Active(entry) < COOLING_CAPACITY_JOULES \div 10
  /\ sim.purge_count = 2

\* C33: at the end of every step peltier_runtime_s is at most
\* PELTIER_MAX_RUNTIME.
C33_RuntimeWithinMax ==
  Stepped => sim.peltier_runtime_s <= PELTIER_MAX_RUNTIME

\* C34: the active canister index only goes from 0 to 1: canister_swaps is
\* at most 1, canister 1 once active stays active, also when it is empty,
\* and the loop goes on.
C34_SwapOnlyOnce ==
  prog = "laptop_sim" =>
    /\ sim.current_canister \in {0, 1}
    /\ sim.canister_swaps <= 1
    /\ sim.canister_swaps = sim.current_canister
    /\ Stepped => /\ sim.current_canister >= entry.current_canister
                  /\ sim.pc # "error"

\* C34 witness: a step has run with canister 1 active and already empty, and
\* the loop goes on with canister 1.
C34_Witness ==
  /\ Stepped
  /\ entry.current_canister = 1
  /\ entry.canisters[1] = 0
  /\ sim.current_canister = 1
  /\ sim.canister_swaps = 1
  /\ sim.pc = "loop"
  /\ sim.t < sim.n_steps

(***************************************************************************)
(* Properties of tactical_cooling_sim.py.  cs.entry is the CoolingSystem as *)
(* the latest call of step found it, cs.system as the call left it.         *)
(***************************************************************************)
CsStepped == prog = "tactical_cooling_sim" /\ cs.system.time_log_len > 0

\* C35: update_state_machine changes the state only along IDLE -> ACTIVE
\* (temperature above 30), ACTIVE -> EMERGENCY (above 40), ACTIVE -> IDLE
\* (below 25) and EMERGENCY -> ACTIVE (below 35): one call (one per step, on
\* the temperature the step starts with) makes at most one of these moves and
\* never passes between IDLE and EMERGENCY directly.
C35_TransitionEdges ==
  CsStepped =>
    LET from == cs.entry.state
        to == cs.system.state
        temperature_c == cs.entry.temperature_c
    IN  /\ to \in {"IDLE", "ACTIVE", "EMERGENCY"}
        /\ to # from =>
             \/ from = "IDLE" /\ to = "ACTIVE" /\ temperature_c > 30 * MicroDeg
             \/ from = "ACTIVE" /\ to = "EMERGENCY" /\ temperature_c > 40 * MicroDeg
             \/ from = "ACTIVE" /\ to = "IDLE" /\ temperature_c < 25 * MicroDeg
             \/ from = "EMERGENCY" /\ to = "ACTIVE" /\ temperature_c < 35 * MicroDeg

\* An EMERGENCY system already below 25 degrees goes to ACTIVE, not to IDLE.
C35_Witness ==
  /\ CsStepped
  /\ cs.entry.state = "EMERGENCY"
  /\ cs.entry.temperature_c < 25 * MicroDeg
  /\ cs.system.state = "ACTIVE"

\* C36: after every step the flags agree with the logged state: tec_on and
\* fan_on are both true when it is ACTIVE or EMERGENCY and both false when it
\* is IDLE, and the battery was drained in the step exactly when its state is
\* not IDLE.
C36_FlagsAgreeWithState ==
  CsStepped =>
    /\ cs.system.state_log_last \in {"ACTIVE", "EMERGENCY"} =>
         cs.system.tec_on /\ cs.system.fan_on
    /\ cs.system.state_log_last = "IDLE" =>
         ~cs.system.tec_on /\ ~cs.system.fan_on
    /\ cs.system.battery_wh < cs.entry.battery_wh <=> cs.system.state_log_last # "IDLE"

(***************************************************************************)
(* Properties of tactical-pi-cooling.py.                                    *)
(***************************************************************************)
\* C37: trigger_co2 never raises and never takes REMAINING_CO2_ML below 0:
\* when more is asked than is left, also when nothing is left, the usage is
\* what is left and the call returns an effect and that usage, whatever HISS
\* and PURGE calls came before.
C37_NeverRaises ==
  (prog = "tactical_pi_cooling" /\ pi.pc # "none") =>
    /\ pi.pc = "returned"
    /\ pi.REMAINING_CO2_ML >= 0
    /\ pi.co2_usage = Min(pi.requested, pi.remaining_before)
    /\ pi.REMAINING_CO2_ML = pi.remaining_before - pi.co2_usage

(***************************************************************************)
(* Properties of combined_gui.py.                                           *)
(***************************************************************************)
Running == {i \in DOMAIN gui.threads : gui.threads[i].pc \notin {"returned", "died"}}

\* While a run is in progress the button is disabled, and at most one thread
\* is running.
OneRunAtATime ==
  /\ Cardinality(Running) <= 1
  /\ Running # {} => gui.run_button.state = "disabled"

\* The n-th run has been started; it has ended and the button is enabled.
RunStarted(n) == prog = "combined_gui" /\ Len(gui.threads) = n

RunEndedEnabled(n) ==
  /\ Len(gui.threads) >= n
  /\ gui.threads[n].pc \in {"returned", "died"}
  /\ gui.run_button.state = "normal"

\* C38: after every run started by start_simulation_thread the Run button is
\* eventually enabled again, however the script ends (normally, by an
\* exception or by exiting), and while a run is in progress the button stays
\* disabled, so that at most one thread runs at a time.
C38_ButtonReenabled ==
  /\ [](prog = "combined_gui" => OneRunAtATime)
  /\ \A n \in 1..MaxGuiClicks : RunStarted(n) ~> RunEndedEnabled(n)

(***************************************************************************)
(* Properties of the pure functions.  Returned(fn) says that the call of   *)
(* fn has returned; call.args are its arguments, call.result its value.     *)
(***************************************************************************)
Returned(fn) == prog = fn /\ call.pc = "return"

\* C11: calculate_fan_multiplier returns exactly 1.0 whenever duty_cycle is 0,
\* whatever is_post_purge and purge_timer are.
C11_IdleFanIdentity ==
  (Returned("calculate_fan_multiplier") /\ call.args.duty_cycle = 0) =>
    call.result = Unit

\* C11 witness: the function has returned for an idle fan inside the
\* post-purge window, where a running fan would be boosted.
C11_Witness ==
  /\ Returned("calculate_fan_multiplier")
  /\ call.args.duty_cycle = 0
  /\ call.args.is_post_purge
  /\ call.args.purge_timer = CONDUCTION_DURATION
  /\ call.result = Unit

\* C12: for duty_cycle in [0, 100] calculate_fan_multiplier returns at least
\* 1.0, and the fan-enhanced total cooling of a step of run_simulation is
\* never below the sum of the unboosted contributions.
C12_FanNeverReduces ==
  /\ (Returned("calculate_fan_multiplier")
        /\ 0 <= call.args.duty_cycle /\ call.args.duty_cycle <= 100) =>
       call.result >= Unit
  /\ Stepped =>
       /\ sim.fan_multiplier >= Unit
       /\ sim.total_cooling >=
            sim.passive_cooling + sim.conduction_cooling
              + sim.hiss_cooling + sim.peltier_cooling

\* C12 witness: the function has returned for a running fan, post-purge,
\* with a purge timer below zero.
C12_Witness ==
  /\ Returned("calculate_fan_multiplier")
  /\ call.args.duty_cycle > 0 /\ call.args.duty_cycle <= 100
  /\ call.args.is_post_purge
  /\ call.args.purge_timer < 0
  /\ call.result >= Unit

C14_EfficiencyMonotone ==
  Returned("calculate_peltier_efficiency") =>
    /\ (call.prev.valid /\ call.prev.hot_side_temp >= call.args.cpu_temp) =>
         call.result <= call.prev.result
    /\ call.args.hot_side_temp <= call.args.cpu_temp =>
         call.result = PELTIER_EFFICIENCY_BASE

\* C14 witness: two calls for the same cpu_temp straddle the 85 degree
\* penalty with the second result still above the clamp's floor.
C14_Witness ==
  /\ Returned("calculate_peltier_efficiency")
  /\ call.prev.valid
  /\ call.prev.hot_side_temp >= call.args.cpu_temp
  /\ call.prev.hot_side_temp <= 85 * DegC
  /\ call.args.hot_side_temp > 85 * DegC
  /\ call.result > Unit \div 10
  /\ call.result < call.prev.result

C16_FloorIsTenthOfBase ==
  Returned("calculate_peltier_efficiency") =>
    /\ call.result >= PELTIER_EFFICIENCY_BASE \div 10
    /\ call.result <= PELTIER_EFFICIENCY_BASE
    /\ call.args.hot_side_temp - call.args.cpu_temp >= 70 * DegC =>
         call.result = PELTIER_EFFICIENCY_BASE \div 10

====
